---- MODULE Spec2Model ----
(***************************************************************************)
(* A model of the quiz / learning-progress web application (app/app.py and *)
(* the import scripts around it): the SQLite tables student, attempt,      *)
(* response and quiz, the Flask session, the request handlers, and the     *)
(* pure helpers behind the mastery and question-selection logic.           *)
(*                                                                         *)
(* Conventions.  One-decimal percentages and points are kept as integers   *)
(* in tenths (100.0 is 1000, 16.7 is 167).  started_at is an abstract      *)
(* totally ordered value standing for the TEXT column that SQLite orders.  *)
(* An options_text cell is represented by the number of entries of its     *)
(* JSON list, or -1 when it does not parse to a list.                      *)
(***************************************************************************)
EXTENDS Integers, Sequences, FiniteSets, TLC

(* ----------------------------- bounds -------------------------------- *)
MaxStudents == 2      \* student ids 1..MaxStudents
MaxAttempts == 2      \* rows of the attempt table
MaxFundAnswered == 1  \* Fundamentals questions a modelled client answers
MaxNormAnswered == 1  \* Normalization questions a modelled client answers
MaxValid == 3         \* four-option rows per category in a small quiz bank
MaxInvalid == 1       \* rows per category whose options do not parse to 4
MaxOther == 1         \* rows of a category outside the two supported ones
MaxTotal == 4         \* largest `total` passed directly to the selection
MaxFeedback == 1      \* rows of the feedback table
MaxCatRows == 4       \* answers per category in one long submission
TicksPerSecond == 100 \* response times are kept in hundredths of a second
MaxSeconds == 25      \* longest response time classified
MaxSheetRows == 2     \* rows of a sheet of an imported workbook
MaxRequests == 2      \* requests the server works on at the same time
MaxCsvRows == 3       \* rows of a quiz CSV file

(* ------------------------ program constants -------------------------- *)
DefaultTotal == 30    \* def _select_questions_payload(total: int = 30)
OptionCount == 4      \* data[:4] and len(options) != 4
FastBelow == 10
NormalUpTo == 20
MaxQuestions == 30    \* MAX_QUESTIONS = 30, and the literal 30 of _seed

Fund == "Data Modeling & DBMS Fundamentals"
Norm == "Normalization & Dependencies"
Legacy == "Legacy"
Categories == <<Fund, Norm>>
NfLevels == <<"FD", "1NF", "2NF", "3NF">>
NullSource == "NULL"

StudentIds == 1..MaxStudents

\* the tables, the session cookie and the clock; the requests being served
\* side by side, each at its own place in its handler; the last response time
\* that was classified
VARIABLES student, attempt, response, quiz, feedback, module_progress, session, now,
          requests, timing, bad_response

vars == <<student, attempt, response, quiz, feedback, module_progress, session, now,
          requests, timing, bad_response>>

(* --------------------------- small helpers --------------------------- *)
Max2(a, b) == IF a >= b THEN a ELSE b
Min2(a, b) == IF a <= b THEN a ELSE b

MaxOf(S) == CHOOSE x \in S : \A y \in S : y <= x
MinOf(S) == CHOOSE x \in S : \A y \in S : x <= y

RECURSIVE SumScore(_)
SumScore(rows) ==
  IF rows = {} THEN 0
  ELSE LET r == CHOOSE x \in rows : TRUE
       IN r.score + SumScore(rows \ {r})

\* all subsets of S with exactly k elements (k <= Cardinality(S))
RECURSIVE KSubsets(_, _)
KSubsets(S, k) ==
  IF k = 0 THEN {{}}
  ELSE IF k >= Cardinality(S) THEN {S}
  ELSE LET x == CHOOSE y \in S : TRUE
       IN KSubsets(S \ {x}, k) \cup {T \cup {x} : T \in KSubsets(S \ {x}, k - 1)}

\* the rows of a result set as a list, in quiz_id order
RECURSIVE RowsToSeq(_)
RowsToSeq(rows) ==
  IF rows = {} THEN <<>>
  ELSE LET r == CHOOSE x \in rows : \A y \in rows : x.quiz_id <= y.quiz_id
       IN <<r>> \o RowsToSeq(rows \ {r})

\* the sub-list of q at the (increasing) positions in idx
RECURSIVE SubSeqAt(_, _, _)
SubSeqAt(q, idx, i) ==
  IF i > Len(q) THEN <<>>
  ELSE (IF i \in idx THEN <<q[i]>> ELSE <<>>) \o SubSeqAt(q, idx, i + 1)

(* ----------------------------- quiz bank ----------------------------- *)
\* a seeded row; its question text is represented by its quiz_id
QuizRow(id, cat, n) ==
  [quiz_id |-> id, question |-> id, two_category |-> cat, options |-> n,
   nf_level |-> NfLevels[((id - 1) % Len(NfLevels)) + 1]]

\* a bank with fv/nv four-option rows and fi/ni broken rows in the two
\* categories and ov rows of another category, quiz_ids in that order
BankOf(fv, fi, nv, ni, ov) ==
  {QuizRow(i, Fund, OptionCount) : i \in 1..fv}
  \cup {QuizRow(fv + i, Fund, 0) : i \in 1..fi}
  \cup {QuizRow(fv + fi + i, Norm, OptionCount) : i \in 1..nv}
  \cup {QuizRow(fv + fi + nv + i, Norm, OptionCount - 1) : i \in 1..ni}
  \cup {QuizRow(fv + fi + nv + ni + i, Legacy, OptionCount) : i \in 1..ov}

HalfTotal == DefaultTotal \div 2

\* the bank enforce_quiz_bank_30.py keeps: 15 + 15 four-option questions
ProductionBank == BankOf(HalfTotal, 0, HalfTotal, 0, 0)

(* ------------------------- business helpers -------------------------- *)
\* safe_parse_options: the length of the list it returns
SafeParseOptions(n) ==
  IF n < 0 THEN 0 ELSE IF n > OptionCount THEN OptionCount ELSE n

\* a variant whose first class includes its upper end
categorize_time_inclusive(ticks) ==
  IF ticks <= FastBelow * TicksPerSecond THEN "Fast"
  ELSE IF ticks <= NormalUpTo * TicksPerSecond THEN "Normal"
  ELSE "Slow"

\* categorize_time(seconds), seconds given in ticks of 1/TicksPerSecond s
categorize_time(ticks) ==
  IF ticks < FastBelow * TicksPerSecond THEN "Fast"
  ELSE IF ticks <= NormalUpTo * TicksPerSecond THEN "Normal"
  ELSE "Slow"

\* round(num / den, 0) of Python 3: the nearest integer, ties to even
RoundHalfEven(num, den) ==
  LET q == num \div den
      r == num % den
  IN IF 2 * r < den THEN q
     ELSE IF 2 * r > den THEN q + 1
     ELSE IF q % 2 = 0 THEN q ELSE q + 1

\* a variant that cuts the quotient off after one decimal instead of rounding
PctTenthsTruncated(correct, total) ==
  IF total = 0 THEN 0 ELSE (1000 * correct) \div total

\* round(100.0 * correct / total, 1) if total else 0.0, in tenths.  The
\* exact quotient is a decimal tie only at x.x25 / x.x75 (both exact in
\* binary) while total < 2000, so ties-to-even on the rational is what the
\* double computation yields.
PctTenths(correct, total) ==
  IF total = 0 THEN 0 ELSE RoundHalfEven(1000 * correct, total)

\* The pct values (in tenths, odd) for which the double (pct / 100.0) * 50.0
\* lies above the decimal tie x.x5, so that round(..., 1) goes up.
PtsRoundsUp ==
    {1, 9, 11, 13, 15, 17, 21, 27, 31, 33, 35, 37, 47, 49, 55, 57,
     59, 67, 69, 75, 77, 79, 83, 89, 93, 95, 99, 103, 109, 113, 115, 119,
     123, 129, 131, 133, 135, 139, 143, 155, 159, 161, 163, 171, 173, 175, 181, 183,
     191, 193, 195, 201, 203, 211, 213, 215, 221, 223, 231, 233, 235, 241, 243, 251,
     253, 255, 259, 261, 263, 267, 271, 273, 275, 281, 283, 291, 295, 303, 311, 313,
     315, 319, 321, 327, 331, 335, 337, 341, 347, 351, 355, 357, 361, 367, 371, 375,
     377, 381, 387, 391, 395, 397, 401, 407, 411, 415, 417, 421, 427, 431, 435, 437,
     441, 447, 451, 455, 457, 461, 467, 471, 475, 477, 481, 487, 491, 495, 497, 501,
     507, 511, 513, 515, 517, 521, 523, 527, 529, 531, 535, 537, 539, 541, 545, 547,
     551, 555, 557, 561, 567, 571, 577, 587, 595, 611, 615, 617, 621, 627, 631, 635,
     637, 647, 649, 655, 657, 659, 667, 669, 675, 677, 679, 687, 689, 695, 697, 699,
     707, 709, 715, 717, 719, 727, 729, 735, 737, 739, 747, 749, 755, 757, 759, 767,
     769, 775, 777, 779, 787, 789, 795, 797, 799, 807, 809, 815, 817, 819, 827, 829,
     835, 837, 839, 847, 849, 855, 857, 859, 867, 869, 875, 877, 879, 887, 889, 895,
     897, 899, 907, 909, 915, 917, 919, 927, 929, 935, 937, 939, 947, 949, 955, 957,
     959, 967, 969, 975, 977, 979, 987, 989, 995, 997, 999}

\* a variant that forgets the factor 0.5
PointsTenthsUnhalved(pct) == pct

\* round((pct / 100.0) * 50.0, 1) in tenths
PointsTenths(pct) ==
  IF pct % 2 = 0 THEN pct \div 2
  ELSE IF pct \in PtsRoundsUp THEN (pct + 1) \div 2 ELSE (pct - 1) \div 2

(* --------------------------- the database ---------------------------- *)
\* _backfill_attempt_source: UPDATE attempt SET source='live' WHERE source IS NULL ...
\* TRIM(text) of SQLite: the spaces at both ends removed
Trim(text) == IF text = " " THEN "" ELSE text

BackfillAttemptSource(att) ==
  {IF a.source = NullSource \/ Trim(a.source) = "" THEN [a EXCEPT !.source = "live"] ELSE a :
     a \in att}

\* the reasons _move_orphan_responses collects for a response row, in the
\* order ", ".join puts them into noted_reason
OrphanReasons(db, r) ==
  (IF \E a \in db.attempt : a.attempt_id = r.attempt_id THEN <<>> ELSE <<"missing attempt">>)
    \o (IF \E q \in db.quiz : q.quiz_id = r.quiz_id THEN <<>> ELSE <<"missing quiz">>)
    \o (IF \E s \in db.student : s.student_id = r.student_id
        THEN <<>> ELSE <<"missing student">>)

\* a variant that does not look at the quiz table
OrphanRowsWithoutQuiz(db) ==
  {r \in db.response :
     \/ ~\E a \in db.attempt : a.attempt_id = r.attempt_id
     \/ ~\E s \in db.student : s.student_id = r.student_id}

\* orphan_rows: the responses with a missing attempt, quiz row or student
OrphanRows(db) == {r \in db.response : OrphanReasons(db, r) # <<>>}

\* _move_orphan_responses: DELETE FROM response WHERE response_id=? for each
KeptResponses(db) ==
  {r \in db.response : r.response_id \notin {o.response_id : o \in OrphanRows(db)}}

\* _move_orphan_responses: INSERT OR REPLACE INTO bad_response for each
MovedResponses(db) ==
  LET moved == {[response_id |-> r.response_id, attempt_id |-> r.attempt_id,
                 student_id |-> r.student_id, quiz_id |-> r.quiz_id, score |-> r.score,
                 noted_reason |-> OrphanReasons(db, r)] : r \in OrphanRows(db)}
  IN {b \in db.bad_response : b.response_id \notin {m.response_id : m \in moved}} \cup moved

\* stabilize_connection, as get_db runs it on every new connection.  The quiz
\* table holds 30 rows with a category each (or quiz_30.csv is absent), so
\* _reload_quiz_if_needed and _backfill_quiz_category change nothing.
StabilizeConnection(db) ==
  LET d1 == [db EXCEPT !.attempt = BackfillAttemptSource(db.attempt)]
  IN [d1 EXCEPT !.response = KeptResponses(d1), !.bad_response = MovedResponses(d1)]

(* ---------------------- get_two_category_mastery ---------------------- *)
IfNullSource(src) == IF src = NullSource THEN "live" ELSE src

\* a variant without the source guard: the student's latest attempt of any source
LatestAttemptAnySource(db, sid) ==
  LET mine == {a \in db.attempt : a.student_id = sid}
  IN IF mine = {} THEN 0
     ELSE (CHOOSE a \in mine : \A b \in mine : b.started_at <= a.started_at).attempt_id

\* SELECT attempt_id FROM attempt WHERE student_id=? AND IFNULL(source,'live')='live'
\* ORDER BY started_at DESC LIMIT 1      (0 when there is no row)
LatestLiveAttempt(db, sid) ==
  LET live == {a \in db.attempt : a.student_id = sid /\ IfNullSource(a.source) = "live"}
  IN IF live = {} THEN 0
     ELSE (CHOOSE a \in live : \A b \in live : b.started_at <= a.started_at).attempt_id

\* ... FROM response r JOIN quiz q ON q.quiz_id = r.quiz_id
\*     WHERE r.student_id=? AND r.attempt_id=?   -- the rows of one category group
CategoryRows(db, sid, aid, cat) ==
  {r \in db.response :
     /\ r.student_id = sid
     /\ r.attempt_id = aid
     /\ \E q \in db.quiz : q.quiz_id = r.quiz_id /\ q.two_category = cat}

\* one entry of the result: {"pct", "pts", "total", "correct"}
CategoryEntry(rows) ==
  LET total == Cardinality(rows)
      correct == SumScore(rows)
      pct == PctTenths(correct, total)
  IN [pct |-> pct, pts |-> PointsTenths(pct), total |-> total, correct |-> correct]

OverallPoints(fund_points, norm_points) == fund_points + norm_points

get_two_category_mastery(db, sid) ==
  LET aid == LatestLiveAttempt(db, sid)
      fund == CategoryEntry(IF aid = 0 THEN {} ELSE CategoryRows(db, sid, aid, Fund))
      norm == CategoryEntry(IF aid = 0 THEN {} ELSE CategoryRows(db, sid, aid, Norm))
  IN [fund |-> fund, norm |-> norm, overall_points |-> OverallPoints(fund.pts, norm.pts)]

\* a variant that asks for Normalization first
next_step_concept_norm_first(db, sid) ==
  LET mastery == get_two_category_mastery(db, sid)
  IN IF mastery.norm.pct < 1000 THEN Norm
     ELSE IF mastery.fund.pct < 1000 THEN Fund
     ELSE "None"

\* next_step_concept
next_step_concept(db, sid) ==
  LET mastery == get_two_category_mastery(db, sid)
  IN IF mastery.fund.pct < 1000 THEN Fund
     ELSE IF mastery.norm.pct < 1000 THEN Norm
     ELSE "None"

\* a variant that unlocks on one perfect category
UnlockedNextEitherCategory(two_cat) == two_cat.fund.pct = 1000 \/ two_cat.norm.pct = 1000

\* student_dashboard: unlocked_next
UnlockedNext(two_cat) == two_cat.fund.pct = 1000 /\ two_cat.norm.pct = 1000

\* what GET /student/<sid> renders for the student of the session
DashboardBody(db, sid) ==
  LET two_cat == get_two_category_mastery(db, sid)
  IN [two_cat |-> two_cat, unlocked_next |-> UnlockedNext(two_cat)]

\* a variant of the review that unlocks on one perfect category
ReviewBodyEitherCategory(db, sid, aid) ==
  LET fund_rows == CategoryRows(db, sid, aid, Fund)
      norm_rows == CategoryRows(db, sid, aid, Norm)
      fund_pct == PctTenths(SumScore(fund_rows), Cardinality(fund_rows))
      norm_pct == PctTenths(SumScore(norm_rows), Cardinality(norm_rows))
  IN [fund_pct |-> fund_pct, norm_pct |-> norm_pct,
      unlocked_next |-> (fund_pct = 1000 \/ norm_pct = 1000)]

\* review_attempt: the per-category split of one attempt of the student
ReviewBody(db, sid, aid) ==
  LET fund_rows == CategoryRows(db, sid, aid, Fund)
      norm_rows == CategoryRows(db, sid, aid, Norm)
      fund_pct == PctTenths(SumScore(fund_rows), Cardinality(fund_rows))
      norm_pct == PctTenths(SumScore(norm_rows), Cardinality(norm_rows))
  IN [fund_pct |-> fund_pct, norm_pct |-> norm_pct,
      unlocked_next |-> (fund_pct = 1000 /\ norm_pct = 1000)]

(* ---------------------- _select_questions_payload --------------------- *)
\* the dict appended for a row (two_category is not part of it)
PayloadEntry(row) ==
  [quiz_id |-> row.quiz_id, options |-> SafeParseOptions(row.options),
   nf_level |-> row.nf_level]

SeenIds(questions) == {questions[i].quiz_id : i \in 1..Len(questions)}

\* a variant without the `seen` check
AcceptsSeenRows(seen, row) == SafeParseOptions(row.options) = OptionCount

\* `if qid in seen: continue` and `if len(options) != 4: continue`
Accepts(seen, row) ==
  row.quiz_id \notin seen /\ SafeParseOptions(row.options) = OptionCount

\* one `for row in cur.fetchall()` loop; stopAt > 0 is the top-up loop's
\* `if len(questions) >= total: break`
RECURSIVE CollectRows(_, _, _)
CollectRows(questions, rows, stopAt) ==
  IF rows = <<>> THEN questions
  ELSE LET row == Head(rows)
           take == Accepts(SeenIds(questions), row)
           q2 == IF take THEN Append(questions, PayloadEntry(row)) ELSE questions
       IN IF take /\ stopAt > 0 /\ Len(q2) >= stopAt THEN q2
          ELSE CollectRows(q2, Tail(rows), stopAt)

\* SELECT ... ORDER BY RANDOM() LIMIT ?: every set of min(limit, n) rows
RandomRows(rows, limit) == KSubsets(rows, Min2(limit, Cardinality(rows)))

\* random.shuffle(questions); return questions[:total] -- the list up to
\* order: all of it, or any `total` of its entries when it is longer
ShuffleAndCut(questions, total) ==
  IF Len(questions) <= total THEN {questions}
  ELSE {SubSeqAt(questions, idx, 1) : idx \in KSubsets(1..Len(questions), total)}

\* The set of lists _select_questions_payload(total) can return on bank qz.
\* Rows of a result set are walked in quiz_id order: the order of a random
\* result set only permutes the list, which the final shuffle does anyway.
select_questions_payload(qz, total) ==
  LET per_category == Max2(1, total \div Max2(Len(Categories), 1))
      catRows(c) == {q \in qz : q.two_category = c}
      pool == {q \in qz : q.two_category \in {Categories[i] : i \in 1..Len(Categories)}}
      phase1 == {CollectRows(CollectRows(<<>>, RowsToSeq(d1), 0), RowsToSeq(d2), 0) :
                   d1 \in RandomRows(catRows(Categories[1]), per_category),
                   d2 \in RandomRows(catRows(Categories[2]), per_category)}
      topUp(questions) ==
        IF Len(questions) < total
        THEN {CollectRows(questions, RowsToSeq(t), total) :
                t \in RandomRows(pool, total - Len(questions))}
        ELSE {questions}
  IN UNION {UNION {ShuffleAndCut(q2, total) : q2 \in topUp(q1)} : q1 \in phase1}

(* ------------------------- session and guards ------------------------- *)
Anonymous == [role |-> "none", student_id |-> 0, lecturer_id |-> 0]
StudentSession(sid) == [role |-> "student", student_id |-> sid, lecturer_id |-> 0]
LecturerSession(lid) == [role |-> "lecturer", student_id |-> 0, lecturer_id |-> lid]
\* a cookie issued before roles existed: session["student_id"] only
LegacySession(sid) == [role |-> "none", student_id |-> sid, lecturer_id |-> 0]

\* The state of the application as one record: the tables, the session cookie
\* of the modelled browser and the clock.  Handlers are functions from such a
\* record (and the request) to the set of outcomes the request can have.
State ==
  [student |-> student, attempt |-> attempt, response |-> response, quiz |-> quiz,
   feedback |-> feedback, module_progress |-> module_progress,
   session |-> session, now |-> now, bad_response |-> bad_response]

\* get_db(): the connection of one request, stabilized
get_db(s) == StabilizeConnection(s)

\* a variant that looks at the ids only, as login_required did before roles
AllowedByIdOnly(sess, expected) ==
  IF expected = "student" THEN sess.student_id # 0
  ELSE IF expected = "lecturer" THEN sess.lecturer_id # 0
  ELSE sess.student_id # 0 \/ sess.lecturer_id # 0

\* _require_role(expected): whether the wrapped view is called
Allowed(sess, expected) ==
  LET student_ok == sess.role = "student" /\ sess.student_id # 0
      lecturer_ok == sess.role = "lecturer" /\ sess.lecturer_id # 0
  IN IF expected = "student" THEN student_ok
     ELSE IF expected = "lecturer" THEN lecturer_ok
     ELSE student_ok \/ lecturer_ok

NoBody == [kind |-> "none"]

\* an answer: ran tells whether the view function was called
Reply(route, status, location, ran, body) ==
  [route |-> route, status |-> status, location |-> location, ran |-> ran, body |-> body]

\* one outcome of a request: the state it leaves and the answer it gives
Out(s, reply) == [st |-> s, reply |-> reply]

\* _redirect_login: the answer of a guarded view that was not called
RedirectLogin(route) == Reply(route, 302, "/login", FALSE, NoBody)

\* a guarded view that is refused: the state is the one before the request
Refused(s, route) == {Out(s, RedirectLogin(route))}

(* ---------------------------- passwords ------------------------------ *)
\* werkzeug: the hash stored for a password, and its check.  A stored value
\* that is no hash ("" or the literal "imported") verifies no password.
generate_password_hash(pw) == IF pw = "temp" THEN "hash_temp" ELSE "hash_pw"
check_password_hash(stored, pw) ==
  \/ stored = "hash_pw" /\ pw = "pw"
  \/ stored = "hash_temp" /\ pw = "temp"

(* ----------------------- _get_or_create_open_attempt ------------------ *)
NextAttemptId(att) == IF att = {} THEN 1 ELSE MaxOf({a.attempt_id : a \in att}) + 1
NextResponseId(resp) == IF resp = {} THEN 1 ELSE MaxOf({r.response_id : r \in resp}) + 1
NextStudentId(st) == IF st = {} THEN 1 ELSE MaxOf({x.student_id : x \in st}) + 1

\* SELECT attempt_id FROM attempt WHERE student_id=? AND finished_at IS NULL
\* ORDER BY started_at DESC LIMIT 1      (0 when there is no row)
OpenAttempt(db, sid) ==
  LET open == {a \in db.attempt : a.student_id = sid /\ ~a.finished}
  IN IF open = {} THEN 0
     ELSE (CHOOSE a \in open : \A b \in open : b.started_at <= a.started_at).attempt_id

\* the student row ensured first (INSERT OR IGNORE with a generated account)
EnsureStudentRow(db, sid) ==
  IF \E x \in db.student : x.student_id = sid THEN db
  ELSE [db EXCEPT !.student =
          @ \cup {[student_id |-> sid, email |-> 100 + sid, password_hash |-> generate_password_hash("temp")]}]

\* the INSERT INTO attempt of _get_or_create_open_attempt, its commit and the
\* SELECT of the new attempt_id; the row is started at datetime.utcnow(), the
\* next tick of the clock
InsertOpenAttempt(d1, sid) ==
  LET aid == NextAttemptId(d1.attempt)
  IN [db |-> [d1 EXCEPT !.attempt = @ \cup
                {[attempt_id |-> aid, student_id |-> sid, started_at |-> d1.now + 1,
                  finished |-> FALSE, source |-> "live", items_total |-> 0,
                  items_correct |-> 0]},
                 !.now = @ + 1],
      attempt_id |-> aid]

\* returns [db, attempt_id]
get_or_create_open_attempt(db, sid) ==
  LET d1 == EnsureStudentRow(db, sid)
      open == OpenAttempt(d1, sid)
  IN IF open # 0 THEN [db |-> d1, attempt_id |-> open]
     ELSE InsertOpenAttempt(d1, sid)

SetItemsTotal(att, aid, n) ==
  {IF a.attempt_id = aid THEN [a EXCEPT !.items_total = n] ELSE a : a \in att}

(* ------------------------------ accounts ------------------------------ *)
Passwords == {"", "pw", "bad"}

\* the lecturer table: the one row get_db seeds (admin@lct.edu is email 0)
Lecturers == {[lecturer_id |-> 1, email |-> 0, password_hash |-> generate_password_hash("pw")]}

Emails == 0..MaxStudents

(* ------------------------------- routes ------------------------------- *)
\* ensure_csrf_token, run before every request: a session without a token is
\* given a new one
ensure_csrf_token(session_token) == IF session_token = "" THEN "new" ELSE session_token

\* token != session.get("csrf_token"), negated: the form field against the
\* token of the session
CsrfOk(form_token, session_token) == form_token = ensure_csrf_token(session_token)

\* a variant of register that does not look at the token
register_without_csrf(s, email, filled, csrf_ok) ==
  IF ~filled
  THEN {Out(s, Reply("/register", 302, "/register", TRUE, NoBody))}
  ELSE LET db == get_db(s)
       IN IF \E x \in db.student : x.email = email
          THEN {Out(db, Reply("/register", 302, "/login", TRUE, NoBody))}
          ELSE LET sid == NextStudentId(db.student)
                   row == [student_id |-> sid, email |-> email,
                           password_hash |-> generate_password_hash("pw")]
               IN {Out([db EXCEPT !.student = @ \cup {row}, !.session = StudentSession(sid)],
                       Reply("/register", 302, "/student", TRUE, [student_id |-> sid]))}

\* POST /register
register(s, email, filled, csrf_ok) ==
  IF ~csrf_ok \/ ~filled
  THEN {Out(s, Reply("/register", 302, "/register", TRUE, NoBody))}
  ELSE LET db == get_db(s)
       IN IF \E x \in db.student : x.email = email
          THEN {Out(db, Reply("/register", 302, "/login", TRUE, NoBody))}
          ELSE LET sid == NextStudentId(db.student)
                   row == [student_id |-> sid, email |-> email,
                           password_hash |-> generate_password_hash("pw")]
               IN {Out([db EXCEPT !.student = @ \cup {row}, !.session = StudentSession(sid)],
                       Reply("/register", 302, "/student", TRUE, [student_id |-> sid]))}

\* a variant of login that writes the new identity without session.clear()
login_keeping_session(s, email, password, csrf_ok) ==
  IF ~csrf_ok \/ password = ""
  THEN {Out(s, Reply("/login", 302, "/login", TRUE, NoBody))}
  ELSE LET db == get_db(s)
           students == {x \in db.student : x.email = email}
           lecturers == {l \in Lecturers : l.email = email}
           student_in == /\ students # {}
                         /\ LET stored == (CHOOSE x \in students : TRUE).password_hash
                            IN stored = "" \/ check_password_hash(stored, password)
           lecturer_in == /\ lecturers # {}
                          /\ LET stored_lect == (CHOOSE l \in lecturers : TRUE).password_hash
                             IN stored_lect # "" /\ check_password_hash(stored_lect, password)
       IN IF student_in
          THEN LET sid == (CHOOSE x \in students : TRUE).student_id
                   latest == {a \in db.attempt : a.student_id = sid}
               IN {Out([db EXCEPT !.session = [@ EXCEPT !.role = "student", !.student_id = sid]],
                       Reply("/login", 302, IF latest # {} THEN "/review" ELSE "/quiz",
                             TRUE, NoBody))}
          ELSE IF lecturer_in
          THEN LET lid == (CHOOSE l \in lecturers : TRUE).lecturer_id
               IN {Out([db EXCEPT !.session = [@ EXCEPT !.role = "lecturer", !.lecturer_id = lid]],
                       Reply("/login", 302, "/admin", TRUE, NoBody))}
          ELSE {Out(db, Reply("/login", 302, "/login", TRUE,
                              [error |-> "Invalid credentials."]))}

\* POST /login
login(s, email, password, csrf_ok) ==
  IF ~csrf_ok \/ password = ""
  THEN {Out(s, Reply("/login", 302, "/login", TRUE, NoBody))}
  ELSE LET db == get_db(s)
           students == {x \in db.student : x.email = email}
           lecturers == {l \in Lecturers : l.email = email}
           student_in == /\ students # {}
                         /\ LET stored == (CHOOSE x \in students : TRUE).password_hash
                            IN stored = "" \/ check_password_hash(stored, password)
           lecturer_in == /\ lecturers # {}
                          /\ LET stored_lect == (CHOOSE l \in lecturers : TRUE).password_hash
                             IN stored_lect # "" /\ check_password_hash(stored_lect, password)
       IN IF student_in
          THEN LET sid == (CHOOSE x \in students : TRUE).student_id
                   latest == {a \in db.attempt : a.student_id = sid}
               IN {Out([db EXCEPT !.session = StudentSession(sid)],
                       Reply("/login", 302, IF latest # {} THEN "/review" ELSE "/quiz",
                             TRUE, NoBody))}
          ELSE IF lecturer_in
          THEN LET lid == (CHOOSE l \in lecturers : TRUE).lecturer_id
               IN {Out([db EXCEPT !.session = LecturerSession(lid)],
                       Reply("/login", 302, "/admin", TRUE, NoBody))}
          ELSE {Out(db, Reply("/login", 302, "/login", TRUE,
                              [error |-> "Invalid credentials."]))}

\* GET /logout
logout(s) ==
  {Out([s EXCEPT !.session = Anonymous], Reply("/logout", 302, "/", TRUE, NoBody))}

\* GET /quiz, from the return of _get_or_create_open_attempt (r) on
QuizWith(r) ==
  {IF Len(questions) = 0
   THEN Out(r.db, Reply("/quiz", 302, "/student", TRUE, NoBody))
   ELSE Out([r.db EXCEPT !.attempt = SetItemsTotal(@, r.attempt_id, Len(questions))],
            Reply("/quiz", 200, "", TRUE,
                  [attempt_id |-> r.attempt_id, questions |-> questions]))
   : questions \in select_questions_payload(r.db.quiz, DefaultTotal)}

\* GET /quiz
quiz_page(s) ==
  IF ~Allowed(s.session, "student") THEN Refused(s, "/quiz")
  ELSE QuizWith(get_or_create_open_attempt(get_db(s), s.session.student_id))

\* GET /reattempt, from the return of _get_or_create_open_attempt (r) on
ReattemptWith(r) ==
  {Out(r.db, Reply("/reattempt", 302, "/quiz", TRUE, [attempt_id |-> r.attempt_id]))}

\* GET /reattempt
reattempt(s) ==
  IF ~Allowed(s.session, "student") THEN Refused(s, "/reattempt")
  ELSE ReattemptWith(get_or_create_open_attempt(get_db(s), s.session.student_id))

\* GET /api/quiz_progressive, from the return of _get_or_create_open_attempt (r) on
ApiQuizProgressiveWith(r) ==
  {IF Len(questions) = 0
   THEN Out(r.db, Reply("/api/quiz_progressive", 503, "", TRUE,
                        [error |-> "quiz unavailable"]))
   ELSE Out([r.db EXCEPT !.attempt = SetItemsTotal(@, r.attempt_id, Len(questions))],
            Reply("/api/quiz_progressive", 200, "", TRUE,
                  [attempt_id |-> r.attempt_id, questions |-> questions]))
   : questions \in select_questions_payload(r.db.quiz, DefaultTotal)}

\* GET /api/quiz_progressive
api_quiz_progressive(s) ==
  IF ~Allowed(s.session, "student") THEN Refused(s, "/api/quiz_progressive")
  ELSE ApiQuizProgressiveWith(get_or_create_open_attempt(get_db(s), s.session.student_id))

(* ------------------------------ /submit ------------------------------- *)
\* the answers of a payload, quiz_id -> 1 when the answer equals correct_answer
\* and 0 otherwise: the first ft Fundamentals and the first nt Normalization
\* questions, the first fc and nc of them answered correctly
AnswersOf(ft, fc, nt, nc) ==
  [q \in (1..ft) \cup ((HalfTotal + 1)..(HalfTotal + nt)) |->
     IF q <= HalfTotal THEN (IF q <= fc THEN 1 ELSE 0)
     ELSE (IF q - HalfTotal <= nc THEN 1 ELSE 0)]

\* the payloads a modelled client posts
AnswerSets ==
  {AnswersOf(ft, fc, nt, nc) :
     ft \in 0..MaxFundAnswered, fc \in 0..MaxFundAnswered,
     nt \in 0..MaxNormAnswered, nc \in 0..MaxNormAnswered}

\* the responses one scored list of answers inserts, response_ids in quiz_id order
ScoredResponses(resp, sid, aid, answers) ==
  LET ids == DOMAIN answers
      first == NextResponseId(resp)
  IN {[response_id |-> first + Cardinality({x \in ids : x < q}), attempt_id |-> aid,
       student_id |-> sid, quiz_id |-> q, score |-> answers[q]] : q \in ids}

\* the scoring part of submit: one response per answer, the attempt finished
SubmitScored(db, sid, aid, answers) ==
  LET rows == ScoredResponses(db.response, sid, aid, answers)
  IN [db EXCEPT
        !.response = @ \cup rows,
        !.attempt = {IF a.attempt_id = aid
                     THEN [a EXCEPT !.finished = TRUE,
                                    !.items_total = Cardinality(rows),
                                    !.items_correct = SumScore(rows)]
                     ELSE a : a \in @}]

\* what the scoring part hands to the reply: the number of answers, the number
\* of correct ones, their ratio as a percentage (kept exact, num / den) and one
\* detail per answer
ScoreSummary(answers) ==
  LET total == Cardinality(DOMAIN answers)
      correct == Cardinality({q \in DOMAIN answers : answers[q] = 1})
  IN [total |-> total, correct |-> correct,
      score_pct |-> [num |-> 100 * correct, den |-> total],
      details |-> {[quiz_id |-> q, score |-> answers[q]] : q \in DOMAIN answers}]

\* score_pct >= n, for the exact ratio
PctAtLeast(pct, n) == pct.num >= n * pct.den

PassThreshold == 70

\* a variant that passes an attempt from half of the answers on
PassedFromHalf(score_pct) == PctAtLeast(score_pct, 50)

\* "passed": score_pct >= 70.0
Passed(score_pct) == PctAtLeast(score_pct, PassThreshold)

\* the JSON values a payload carries under "attempt_id": absent, a string, a
\* number, or true / false
JMissing == [type |-> "missing", val |-> 0]
JStr == [type |-> "str", val |-> 0]
JInt(n) == [type |-> "int", val |-> n]
JBool(b) == [type |-> "bool", val |-> IF b THEN 1 ELSE 0]

\* and under "answers": a list of answers, or something that is no list
JList(items) == [type |-> "list", val |-> items]
JText == [type |-> "str", val |-> <<>>]

\* isinstance(value, int) in Python: bool is a subclass of int, and sqlite3
\* binds True as 1 and False as 0
IsInstanceInt(v) == v.type \in {"int", "bool"}

\* a variant of the lookup that does not ask whose attempt it is
AttemptOfAnyone(db, attempt_id, student_id) ==
  {a \in db.attempt : a.attempt_id = attempt_id}

\* SELECT attempt_id, finished_at FROM attempt WHERE attempt_id=? AND student_id=?
AttemptOfStudent(db, attempt_id, student_id) ==
  {a \in db.attempt : a.attempt_id = attempt_id /\ a.student_id = student_id}

\* POST /submit with the payload {"attempt_id": attempt_json, "answers": answers_json}
submit(s, attempt_json, answers_json) ==
  IF ~Allowed(s.session, "student") THEN Refused(s, "/submit")
  ELSE IF \/ ~IsInstanceInt(attempt_json)
          \/ answers_json.type # "list"
          \/ DOMAIN answers_json.val = {}
  THEN {Out(s, Reply("/submit", 400, "", TRUE, [error |-> "Invalid payload"]))}
  ELSE LET student_id == s.session.student_id
           attempt_id == attempt_json.val
           answers == answers_json.val
           db == get_db(s)
           found == AttemptOfStudent(db, attempt_id, student_id)
       IN IF found = {}
          THEN {Out(db, Reply("/submit", 404, "", TRUE, [error |-> "Attempt not found"]))}
          ELSE IF (CHOOSE a \in found : TRUE).finished
          THEN {Out(db, Reply("/submit", 400, "", TRUE, [error |-> "Attempt already finished"]))}
          ELSE LET d2 == SubmitScored(db, student_id, attempt_id, answers)
                   tally == ScoreSummary(answers)
               IN {Out(d2, Reply("/submit", 200, "", TRUE,
                                 [attempt_id |-> attempt_id, student_id |-> student_id,
                                  total |-> tally.total, correct |-> tally.correct,
                                  score_pct |-> tally.score_pct, details |-> tally.details,
                                  passed |-> Passed(tally.score_pct),
                                  next_step |-> next_step_concept(d2, student_id)]))}

(* --------------------------- student views ---------------------------- *)
\* a variant that renders the dashboard of the student named in the URL
student_dashboard_of_url(s, student_id) ==
  IF ~Allowed(s.session, "student") THEN Refused(s, "/student")
  ELSE LET db == get_db(s)
       IN {Out(db, Reply("/student", 200, "", TRUE, DashboardBody(db, student_id)))}

\* GET /student/<student_id>
student_dashboard(s, student_id) ==
  IF ~Allowed(s.session, "student") THEN Refused(s, "/student")
  ELSE LET current_student_id == s.session.student_id
       IN IF student_id # current_student_id
          THEN {Out(s, Reply("/student", 302, "/student", TRUE,
                             [student_id |-> current_student_id]))}
          ELSE LET db == get_db(s)
               IN {Out(db, Reply("/student", 200, "", TRUE,
                                 DashboardBody(db, current_student_id)))}

\* GET /review/<attempt_id>
review_attempt(s, attempt_id) ==
  IF ~Allowed(s.session, "student") THEN Refused(s, "/review")
  ELSE LET sid == s.session.student_id
           db == get_db(s)
       IN IF ~\E a \in db.attempt : a.attempt_id = attempt_id /\ a.student_id = sid
          THEN {Out(db, Reply("/review", 302, "/student", TRUE, [student_id |-> sid]))}
          ELSE {Out(db, Reply("/review", 200, "", TRUE, ReviewBody(db, sid, attempt_id)))}

\* GET /modules
modules(s) ==
  IF ~Allowed(s.session, "student") THEN Refused(s, "/modules")
  ELSE {Out(get_db(s), Reply("/modules", 200, "", TRUE, NoBody))}

\* GET /module/fundamentals, /module/norm, /thanks: templates only
StaticRoutes == {"/module/fundamentals", "/module/norm", "/thanks"}

static_student_view(s, route) ==
  IF ~Allowed(s.session, "student") THEN Refused(s, route)
  ELSE {Out(s, Reply(route, 200, "", TRUE, NoBody))}

ModuleKeys == {"fundamentals", "norm", "other"}

\* POST /api/module_progress
api_module_progress(s, module_key, score) ==
  IF ~Allowed(s.session, "student") THEN Refused(s, "/api/module_progress")
  ELSE IF module_key \notin {"fundamentals", "norm"} \/ score < 0 \/ score > 3
  THEN {Out(s, Reply("/api/module_progress", 400, "", TRUE, [ok |-> FALSE]))}
  ELSE LET sid == s.session.student_id
           db == get_db(s)
           row == [student_id |-> sid, module_key |-> module_key, score |-> score]
       IN {Out([db EXCEPT !.module_progress =
                   {m \in @ : ~(m.student_id = sid /\ m.module_key = module_key)} \cup {row}],
               Reply("/api/module_progress", 200, "", TRUE, [ok |-> TRUE]))}

\* POST /api/feedback
api_feedback(s, rating) ==
  IF ~Allowed(s.session, "student") THEN Refused(s, "/api/feedback")
  ELSE IF rating < 1 \/ rating > 5
  THEN {Out(s, Reply("/api/feedback", 400, "", TRUE, [ok |-> FALSE]))}
  ELSE LET db == get_db(s)
           row == [feedback_id |-> Cardinality(db.feedback) + 1,
                   student_id |-> s.session.student_id, rating |-> rating]
       IN {Out([db EXCEPT !.feedback = @ \cup {row}],
               Reply("/api/feedback", 200, "", TRUE, [ok |-> TRUE]))}

(* --------------------------- lecturer views --------------------------- *)
AdminRoutes == {"/admin", "/admin/students", "/admin/questions",
                "/admin/analytics", "/admin/rankings"}

\* the read-only /admin pages
admin_view(s, route) ==
  IF ~Allowed(s.session, "lecturer") THEN Refused(s, route)
  ELSE {Out(get_db(s), Reply(route, 200, "", TRUE, NoBody))}

\* GET /admin/students/<sid>
admin_student_detail(s, sid) ==
  IF ~Allowed(s.session, "lecturer") THEN Refused(s, "/admin/students/<sid>")
  ELSE LET db == get_db(s)
       IN IF \E x \in db.student : x.student_id = sid
          THEN {Out(db, Reply("/admin/students/<sid>", 200, "", TRUE, [student_id |-> sid]))}
          ELSE {Out(db, Reply("/admin/students/<sid>", 302, "/admin/students", TRUE, NoBody))}

(* --------------------------- import scripts --------------------------- *)
\* the started_at values an imported file carries: before every attempt the
\* web application starts, or after all of them
ImportTimes == {0, MaxAttempts + 1}

\* questions.xlsx: whether the sheet has every required column, and the
\* question texts of its rows
QuestionsFile(has_columns, rows) == [has_columns |-> has_columns, rows |-> rows]

\* two_category of a row inserted without one
NullCategory == "NULL"

\* the row INSERT INTO quiz (question, options_text, ...) adds for sheet row i:
\* four options, no two_category, the next free rowid
ImportedQuizRow(qz, text, i) ==
  [quiz_id |-> IF qz = {} THEN 1 ELSE MaxOf({q.quiz_id : q \in qz}) + 1,
   question |-> text, two_category |-> NullCategory, options |-> OptionCount,
   nf_level |-> NfLevels[((i - 1) % Len(NfLevels)) + 1]]

\* the statements inside the try block, numbered 1 (DELETE FROM quiz), 1 + i
\* (the INSERT of sheet row i) and Len(rows) + 2 (commit); `fault` is the number
\* of the statement that raises (a foreign key still pointing at a quiz row, a
\* constraint of the table, a locked database), 0 when none does.  The result
\* is the quiz table as the open transaction sees it, and whether it raised.
RECURSIVE InsertQuestions(_, _, _, _)
InsertQuestions(qz, rows, i, fault) ==
  IF i > Len(rows) THEN [quiz |-> qz, raised |-> (fault = Len(rows) + 2)]
  ELSE IF fault = 1 + i THEN [quiz |-> qz, raised |-> TRUE]
  ELSE InsertQuestions(qz \cup {ImportedQuizRow(qz, rows[i], i)}, rows, i + 1, fault)

QuestionStatements(qz, rows, fault) ==
  IF fault = 1 THEN [quiz |-> qz, raised |-> TRUE]
  ELSE InsertQuestions({}, rows, 1, fault)

\* a variant whose except branch does not roll back: what the statements did
\* before the failure stays
import_questions_without_rollback(s, file, fault) ==
  IF ~file.has_columns
  THEN {Out(s, Reply("import_questions", 0, "", TRUE, [error |-> "ValueError: Missing columns"]))}
  ELSE LET run == QuestionStatements(s.quiz, file.rows, fault)
       IN IF run.raised
          THEN {Out([s EXCEPT !.quiz = run.quiz],
                    Reply("import_questions", 0, "", TRUE, [error |-> "raised"]))}
          ELSE {Out([s EXCEPT !.quiz = run.quiz],
                    Reply("import_questions", 0, "", TRUE, [imported_count |-> Len(file.rows)]))}

\* import_excel.import_questions(db_path, questions_file)
import_questions(s, file, fault) ==
  IF ~file.has_columns
  THEN {Out(s, Reply("import_questions", 0, "", TRUE, [error |-> "ValueError: Missing columns"]))}
  ELSE LET run == QuestionStatements(s.quiz, file.rows, fault)
       IN IF run.raised
          THEN {Out(s, Reply("import_questions", 0, "", TRUE, [error |-> "raised"]))}
          ELSE {Out([s EXCEPT !.quiz = run.quiz],
                    Reply("import_questions", 0, "", TRUE, [imported_count |-> Len(file.rows)]))}

\* history.xlsx: a row of the sheet "attempts" and a row of the sheet
\* "responses".  question is the text of the row (0 is a text no seeded
\* question has), right tells whether the answer equals correct_answer.
AttemptRow(email, started_at) == [email |-> email, started_at |-> started_at]
ResponseRow(email, started_at, question, right) ==
  [email |-> email, started_at |-> started_at, question |-> question, right |-> right]

\* finished tells whether the attempts sheet carries finished_at values
HistoryFile(attempts, responses, finished) ==
  [attempts |-> attempts, responses |-> responses, finished |-> finished]

\* attempts_df['external_student_email'].unique(): first appearances, in order
RECURSIVE UniqueEmails(_, _, _)
UniqueEmails(rows, i, seen) ==
  IF i > Len(rows) THEN <<>>
  ELSE IF rows[i].email \in seen THEN UniqueEmails(rows, i + 1, seen)
  ELSE <<rows[i].email>> \o UniqueEmails(rows, i + 1, seen \cup {rows[i].email})

\* quiz_map.get(question_text): the dict built from SELECT quiz_id, question
\* keeps the last row of a text; 0 when no row has it
QuizIdOf(qz, text) ==
  LET ids == {q.quiz_id : q \in {x \in qz : x.question = text}}
  IN IF ids = {} THEN 0 ELSE MaxOf(ids)

\* fetchone() of SELECT attempt_id FROM attempt WHERE student_id=? AND
\* started_at=?: the first matching row in rowid order
AttemptIdAt(att, sid, started_at) ==
  MinOf({a.attempt_id : a \in {x \in att : x.student_id = sid /\ x.started_at = started_at}})

\* the responses loop for one attempt row: the rows i.. of the responses sheet
\* with the email and started_at of `row`, skipping texts outside the bank
RECURSIVE ImportResponseRows(_, _, _, _, _, _)
ImportResponseRows(db, rows, i, row, sid, aid) ==
  IF i > Len(rows) THEN db
  ELSE LET r == rows[i]
           quiz_id == QuizIdOf(db.quiz, r.question)
       IN IF r.email # row.email \/ r.started_at # row.started_at \/ quiz_id = 0
          THEN ImportResponseRows(db, rows, i + 1, row, sid, aid)
          ELSE ImportResponseRows(
                 [db EXCEPT !.response = @ \cup
                    {[response_id |-> NextResponseId(@), attempt_id |-> aid,
                      student_id |-> sid, quiz_id |-> quiz_id,
                      score |-> IF r.right THEN 1 ELSE 0]}],
                 rows, i + 1, row, sid, aid)

\* one row of the attempts sheet: INSERT INTO attempt (no source), look the
\* attempt up again by student and started_at, insert its responses, UPDATE
\* the totals of the attempt that was looked up
ImportAttemptRow(db, file, row, sid) ==
  LET d1 == [db EXCEPT !.attempt = @ \cup
               {[attempt_id |-> NextAttemptId(@), student_id |-> sid,
                 started_at |-> row.started_at, finished |-> file.finished,
                 source |-> NullSource, items_total |-> 0, items_correct |-> 0]}]
      aid == AttemptIdAt(d1.attempt, sid, row.started_at)
      d2 == ImportResponseRows(d1, file.responses, 1, row, sid, aid)
      added == d2.response \ d1.response
  IN [d2 EXCEPT !.attempt =
        {IF a.attempt_id = aid
         THEN [a EXCEPT !.items_total = Cardinality(added), !.items_correct = SumScore(added)]
         ELSE a : a \in @}]

\* the attempts of one email, in sheet order
RECURSIVE ImportAttemptRows(_, _, _, _, _)
ImportAttemptRows(db, file, i, email, sid) ==
  IF i > Len(file.attempts) THEN db
  ELSE IF file.attempts[i].email # email THEN ImportAttemptRows(db, file, i + 1, email, sid)
  ELSE ImportAttemptRows(ImportAttemptRow(db, file, file.attempts[i], sid),
                         file, i + 1, email, sid)

\* the loop over the distinct emails: find or create the student, then the
\* attempts of that email
RECURSIVE ImportStudents(_, _, _)
ImportStudents(db, file, emails) ==
  IF emails = <<>> THEN db
  ELSE LET email == Head(emails)
           known == {x \in db.student : x.email = email}
           sid == IF known # {} THEN (CHOOSE x \in known : TRUE).student_id
                  ELSE NextStudentId(db.student)
           d1 == IF known # {} THEN db
                 ELSE [db EXCEPT !.student = @ \cup
                         {[student_id |-> sid, email |-> email, password_hash |-> "imported"]}]
       IN ImportStudents(ImportAttemptRows(d1, file, 1, email, sid), file, Tail(emails))

\* import_excel.import_history(db_path, history_file)
import_history_file(s, file) ==
  {Out(ImportStudents(s, file, UniqueEmails(file.attempts, 1, {})),
       Reply("import_history", 0, "", TRUE, NoBody))}

\* the responses sheet of a file that answers the questions of `answers`
AnswerRows(email, started_at, answers) ==
  LET qs == RowsToSeq({[quiz_id |-> q] : q \in DOMAIN answers})
  IN [i \in 1..Len(qs) |->
        ResponseRow(email, started_at, qs[i].quiz_id, answers[qs[i].quiz_id] = 1)]

\* import_history for a file with one finished attempt of one student and its
\* responses
import_history(s, email, started_at, answers) ==
  import_history_file(s, HistoryFile(<<AttemptRow(email, started_at)>>,
                                     AnswerRows(email, started_at, answers), TRUE))

\* app/scripts/seed_from_msforms_csv.py, for a file with one row: a new account
\* (derive_email never returns a known address) with one 'import' attempt that
\* answers all 30 questions, all right or all wrong
seed_from_msforms_csv(s, started_at, points) ==
  LET db == get_db(s)
      sid == NextStudentId(db.student)
      email == CHOOSE e \in 1..(Cardinality(db.student) + 1) :
                 ~\E x \in db.student : x.email = e
      aid == NextAttemptId(db.attempt)
      rows == ScoredResponses(db.response, sid, aid, [q \in 1..DefaultTotal |-> points])
  IN IF Cardinality(db.quiz) # DefaultTotal THEN {}
     ELSE {Out([db EXCEPT
                  !.student = @ \cup
                    {[student_id |-> sid, email |-> email,
                      password_hash |-> generate_password_hash("pw")]},
                  !.attempt = @ \cup
                    {[attempt_id |-> aid, student_id |-> sid, started_at |-> started_at,
                      finished |-> TRUE, source |-> "import",
                      items_total |-> DefaultTotal, items_correct |-> SumScore(rows)]},
                  !.response = @ \cup rows],
               Reply("seed_from_msforms_csv", 0, "", TRUE, NoBody))}

(* ------------------ the application, request by request --------------- *)
\* no request is half-way through its handler, and no time was classified yet
NoRequests == <<>>
NoTiming == [ticks |-> 0, category |-> "none"]

\* the modelled part of the state space
InBounds(s) ==
  /\ Cardinality(s.student) <= MaxStudents
  /\ Cardinality(s.attempt) <= MaxAttempts
  /\ Cardinality(s.feedback) <= MaxFeedback
  /\ \A a, b \in s.attempt :
       a.student_id = b.student_id /\ a.started_at = b.started_at => a = b

\* the application takes one of the outcomes of a request
Step(outs) ==
  \E o \in outs :
    /\ InBounds(o.st)
    /\ student' = o.st.student
    /\ attempt' = o.st.attempt
    /\ response' = o.st.response
    /\ quiz' = o.st.quiz
    /\ feedback' = o.st.feedback
    /\ module_progress' = o.st.module_progress
    /\ session' = o.st.session
    /\ now' = o.st.now
    /\ bad_response' = o.st.bad_response
    /\ UNCHANGED <<requests, timing>>

Register == \E e \in Emails, filled \in BOOLEAN, csrf_ok \in BOOLEAN :
              Step(register(State, e, filled, csrf_ok))
Login == \E e \in Emails, pw \in Passwords, csrf_ok \in BOOLEAN :
           Step(login(State, e, pw, csrf_ok))
Logout == Step(logout(State))
Quiz == Step(quiz_page(State))
Reattempt == Step(reattempt(State))
ApiQuizProgressive == Step(api_quiz_progressive(State))
\* the payloads a modelled client posts to /submit
AttemptIdValues ==
  {JMissing, JStr, JBool(FALSE), JBool(TRUE)} \cup {JInt(n) : n \in 1..MaxAttempts}
AnswersValues == {JList(f) : f \in AnswerSets} \cup {JText}

Submit == \E a \in AttemptIdValues, answers \in AnswersValues :
            Step(submit(State, a, answers))
StudentDashboard == \E sid \in StudentIds : Step(student_dashboard(State, sid))
ReviewAttempt == \E a \in 1..MaxAttempts : Step(review_attempt(State, a))
Modules == Step(modules(State))
StaticStudentView == \E route \in StaticRoutes : Step(static_student_view(State, route))
ApiModuleProgress == \E k \in ModuleKeys, score \in {0, 3, 4} :
                       Step(api_module_progress(State, k, score))
ApiFeedback == \E rating \in {0, 5} : Step(api_feedback(State, rating))
AdminView == \E route \in AdminRoutes : Step(admin_view(State, route))
AdminStudentDetail == \E sid \in StudentIds : Step(admin_student_detail(State, sid))
ImportHistory == \E e \in 1..MaxStudents, t \in ImportTimes, answers \in AnswerSets :
                   Step(import_history(State, e, t, answers))
SeedFromMsforms == \E t \in ImportTimes, points \in 0..1 :
                     Step(seed_from_msforms_csv(State, t, points))

Init ==
  /\ student = {[student_id |-> 1, email |-> 1, password_hash |-> generate_password_hash("pw")]}
  /\ attempt = {}
  /\ response = {}
  /\ quiz = ProductionBank
  /\ feedback = {}
  /\ module_progress = {}
  /\ session = Anonymous
  /\ now = 0
  /\ requests = NoRequests
  /\ timing = NoTiming
  /\ bad_response = {}

Next ==
  \/ Register
  \/ Login
  \/ Logout
  \/ Quiz
  \/ Reattempt
  \/ ApiQuizProgressive
  \/ Submit
  \/ StudentDashboard
  \/ ReviewAttempt

Spec == Init /\ [][Next]_vars

(* --------------- _select_questions_payload on any bank ---------------- *)
\* Banks of a deployment without data/quiz_30.csv, where get_db neither
\* reloads nor seeds the quiz table and the bank is what the import scripts
\* left: small ones of every shape, and ones around the production size.
SmallBanks ==
  {BankOf(fv, fi, nv, ni, ov) :
     fv \in 0..MaxValid, fi \in 0..MaxInvalid,
     nv \in 0..MaxValid, ni \in 0..MaxInvalid, ov \in 0..MaxOther}

LargeBanks ==
  {BankOf(HalfTotal + a, b, HalfTotal + c, 0, 0) :
     a \in 0..1, b \in 0..MaxInvalid, c \in 0..1}

\* the totals the selection is called with: 30 as the routes do, and every
\* small total on a small bank
TotalsFor(qz) ==
  IF Cardinality(qz) >= DefaultTotal THEN {DefaultTotal}
  ELSE (1..MaxTotal) \cup {DefaultTotal}

\* a call _select_questions_payload(total): it reads the bank and writes nothing
SelectQuestions ==
  \E total \in TotalsFor(quiz) :
    \E questions \in select_questions_payload(quiz, total) :
      /\ Len(questions) <= Cardinality(quiz)
      /\ UNCHANGED vars

InitSelect ==
  /\ student = {}
  /\ attempt = {}
  /\ response = {}
  /\ quiz \in SmallBanks \cup LargeBanks
  /\ feedback = {}
  /\ module_progress = {}
  /\ session = Anonymous
  /\ now = 0
  /\ requests = NoRequests
  /\ timing = NoTiming
  /\ bad_response = {}

NextSelect == SelectQuestions

SpecSelect == InitSelect /\ [][NextSelect]_vars

\* the rows of a category that carry exactly four parseable options
FourOptionRows(qz, cat) ==
  {q \in qz : q.two_category = cat /\ q.options = OptionCount}

\* the two_category of a returned question, read back from the bank
CategoryOf(qz, quiz_id) == (CHOOSE q \in qz : q.quiz_id = quiz_id).two_category

CountIn(qz, questions, cat) ==
  Cardinality({i \in 1..Len(questions) : CategoryOf(qz, questions[i].quiz_id) = cat})

\* C6: whenever both categories hold at least 15 four-option questions, every
\* list _select_questions_payload(30) can return has exactly 30 questions, 15
\* of each category.
C6_ThirtyFifteenEach ==
  (/\ Cardinality(FourOptionRows(quiz, Fund)) >= HalfTotal
   /\ Cardinality(FourOptionRows(quiz, Norm)) >= HalfTotal)
  => \A questions \in select_questions_payload(quiz, DefaultTotal) :
       /\ Len(questions) = DefaultTotal
       /\ CountIn(quiz, questions, Fund) = HalfTotal
       /\ CountIn(quiz, questions, Norm) = HalfTotal

\* C7: when a category supplies fewer than total/2 four-option questions, every
\* list returned holds min(total, four-option questions of both categories)
\* entries.
C7_TopUpFills ==
  \A total \in TotalsFor(quiz) :
    (\E cat \in {Fund, Norm} : 2 * Cardinality(FourOptionRows(quiz, cat)) < total)
    => \A questions \in select_questions_payload(quiz, total) :
         Len(questions) = Min2(total, Cardinality(FourOptionRows(quiz, Fund))
                                      + Cardinality(FourOptionRows(quiz, Norm)))

\* C8: every list returned has at most total entries, no quiz_id twice, only
\* questions of the two supported categories, and four options on each.
C8_PayloadWellFormed ==
  \A total \in TotalsFor(quiz) :
    \A questions \in select_questions_payload(quiz, total) :
      /\ Len(questions) <= total
      /\ \A i, j \in 1..Len(questions) :
           questions[i].quiz_id = questions[j].quiz_id => i = j
      /\ \A i \in 1..Len(questions) :
           /\ CategoryOf(quiz, questions[i].quiz_id) \in {Fund, Norm}
           /\ questions[i].options = OptionCount

\* a bank with a broken row, a row of another category and more four-option
\* rows than asked for, where a returned list is cut to exactly total
C8_Witness ==
  /\ \E q \in quiz : q.two_category = Fund /\ q.options # OptionCount
  /\ \E q \in quiz : q.two_category = Legacy
  /\ \E total \in TotalsFor(quiz) :
       /\ Cardinality(FourOptionRows(quiz, Fund)) + Cardinality(FourOptionRows(quiz, Norm)) > total
       /\ \E questions \in select_questions_payload(quiz, total) : Len(questions) = total

(* ------------------- the scores of one long attempt -------------------- *)
\* the answers of an imported attempt with up to MaxCatRows responses in each
\* category
LongAnswerSets ==
  {AnswersOf(ft, fc, nt, nc) :
     ft \in 0..MaxCatRows, fc \in 0..MaxCatRows,
     nt \in 0..MaxCatRows, nc \in 0..MaxCatRows}

\* import_history for a file with one attempt of student 1's address
ImportLong == \E answers \in LongAnswerSets : Step(import_history(State, 1, 0, answers))

\* student 1 is logged in and has no attempt yet
InitNumeric ==
  /\ student = {[student_id |-> 1, email |-> 1, password_hash |-> generate_password_hash("pw")]}
  /\ attempt = {}
  /\ response = {}
  /\ quiz = ProductionBank
  /\ feedback = {}
  /\ module_progress = {}
  /\ session = StudentSession(1)
  /\ now = 0
  /\ requests = NoRequests
  /\ timing = NoTiming
  /\ bad_response = {}

NextNumeric ==
  \/ ImportLong
  \/ StudentDashboard
  \/ ReviewAttempt

SpecNumeric == InitNumeric /\ [][NextNumeric]_vars

\* the responses of an attempt that answer a question of a category, counted
\* from the tables
RowsOf(aid, cat) ==
  {r \in response : r.attempt_id = aid /\ CategoryOf(quiz, r.quiz_id) = cat}

CorrectOf(aid, cat) == {r \in RowsOf(aid, cat) : r.score = 1}

\* pct (in tenths of a percent) is correct/total x 100 rounded to one decimal:
\* within 0.05 of the quotient, 0 when total is 0, and inside [0, 100]
IsRoundedAccuracy(pct, correct, total) ==
  /\ pct \in 0..1000
  /\ total = 0 => pct = 0
  /\ 2 * (pct * total - 1000 * correct) <= total
  /\ 2 * (1000 * correct - pct * total) <= total

\* what the dashboard and the review page of the logged-in student show
DashboardBodies ==
  {o.reply.body : o \in {x \in student_dashboard(State, session.student_id) :
                           x.reply.status = 200}}

ReviewBodies(aid) ==
  {o.reply.body : o \in {x \in review_attempt(State, aid) : x.reply.status = 200}}

\* C4: each category's accuracy, on the dashboard and on the review page, is
\* correct/total x 100 of the attempt's responses in that category rounded to
\* one decimal; 0.0 when there are none; always within [0, 100].
C4_AccuracyIsRoundedRatio ==
  Allowed(session, "student") =>
    /\ \A body \in DashboardBodies :
         LET aid == LatestLiveAttempt(get_db(State), session.student_id)
         IN /\ IsRoundedAccuracy(body.two_cat.fund.pct,
                                 Cardinality(CorrectOf(aid, Fund)), Cardinality(RowsOf(aid, Fund)))
            /\ IsRoundedAccuracy(body.two_cat.norm.pct,
                                 Cardinality(CorrectOf(aid, Norm)), Cardinality(RowsOf(aid, Norm)))
    /\ \A aid \in 1..MaxAttempts : \A body \in ReviewBodies(aid) :
         /\ IsRoundedAccuracy(body.fund_pct,
                              Cardinality(CorrectOf(aid, Fund)), Cardinality(RowsOf(aid, Fund)))
         /\ IsRoundedAccuracy(body.norm_pct,
                              Cardinality(CorrectOf(aid, Norm)), Cardinality(RowsOf(aid, Norm)))

\* two of three Fundamentals answers right and none of Normalization given:
\* the dashboard and the review page show 66.7 and 0.0
C4_Witness ==
  /\ Cardinality(RowsOf(1, Fund)) = 3
  /\ Cardinality(CorrectOf(1, Fund)) = 2
  /\ RowsOf(1, Norm) = {}
  /\ \E body \in DashboardBodies : body.two_cat.fund.pct = 667 /\ body.two_cat.norm.pct = 0
  /\ \E body \in ReviewBodies(1) : body.fund_pct = 667 /\ body.norm_pct = 0

\* points (in tenths) are pct x 0.5 rounded to one decimal
IsHalfOf(points, pct) == 2 * points - pct \in {-1, 0, 1}

\* C5: each category's points are its accuracy x 0.5 rounded to one decimal, lie
\* in [0, 50] and are 50 exactly when the accuracy is 100%; overall_points is
\* the sum of the two and never exceeds 100.
C5_PointsAreHalfAccuracy ==
  Allowed(session, "student") =>
    \A body \in DashboardBodies :
      LET fund == body.two_cat.fund
          norm == body.two_cat.norm
      IN /\ IsHalfOf(fund.pts, fund.pct) /\ IsHalfOf(norm.pts, norm.pct)
         /\ fund.pts \in 0..500 /\ norm.pts \in 0..500
         /\ fund.pts = 500 <=> fund.pct = 1000
         /\ norm.pts = 500 <=> norm.pct = 1000
         /\ body.two_cat.overall_points = fund.pts + norm.pts
         /\ body.two_cat.overall_points <= 1000

\* a perfect Fundamentals score next to one Normalization answer out of three:
\* 50 points, and 33.3% worth 16.6 or 16.7 points
C5_Witness ==
  \E body \in DashboardBodies :
    /\ body.two_cat.fund.pct = 1000 /\ body.two_cat.fund.pts = 500
    /\ body.two_cat.norm.pct = 333 /\ body.two_cat.norm.pts \in {166, 167}
    /\ body.two_cat.overall_points \in {666, 667}

(* ------------- the web application next to the import scripts --------- *)
NextImport ==
  \/ ImportHistory
  \/ SeedFromMsforms
  \/ Login
  \/ Quiz
  \/ StudentDashboard

SpecImport == Init /\ [][NextImport]_vars

\* the attempts the mastery of a student may be read from, taken from the
\* attempt table: those with source 'live' or no source, latest started_at
LiveAttempts(sid) ==
  {a \in attempt : a.student_id = sid /\ a.source \in {"live", NullSource}}

MostRecentLive(sid) ==
  {a \in LiveAttempts(sid) : \A b \in LiveAttempts(sid) : b.started_at <= a.started_at}

\* every response of the attempt in both categories is correct, and each
\* category has at least one
PerfectInBoth(aid) ==
  /\ RowsOf(aid, Fund) # {}
  /\ RowsOf(aid, Norm) # {}
  /\ CorrectOf(aid, Fund) = RowsOf(aid, Fund)
  /\ CorrectOf(aid, Norm) = RowsOf(aid, Norm)

\* C1: the dashboard reports unlocked_next exactly when the student's most
\* recent live attempt has a response in both categories and every response of
\* both is correct; with no such attempt it is false.
C1_UnlockedIffPerfectLatest ==
  Allowed(session, "student") =>
    \A body \in DashboardBodies :
      body.unlocked_next <=>
        \E a \in MostRecentLive(session.student_id) : PerfectInBoth(a.attempt_id)

\* the logged-in student sees the next topic unlocked while an older attempt
\* of theirs was not perfect
C1_Witness ==
  /\ Allowed(session, "student")
  /\ \E body \in DashboardBodies : body.unlocked_next
  /\ \E a \in attempt : /\ a.student_id = session.student_id
                        /\ RowsOf(a.attempt_id, Fund) # {}
                        /\ ~PerfectInBoth(a.attempt_id)

\* the entry get_two_category_mastery gives for `rows` responses of a category
EntryFor(entry, rows) ==
  /\ entry.total = Cardinality(rows)
  /\ entry.correct = Cardinality({r \in rows : r.score = 1})
  /\ entry.pct = PctTenths(entry.correct, entry.total)
  /\ entry.pts = PointsTenths(entry.pct)

\* C3: get_two_category_mastery of a student is the per-category count over the
\* responses of one attempt, the student's live (or source-less) attempt with
\* the greatest started_at, whatever other attempts, sources and students hold;
\* with no live attempt every field is 0.
C3_MasteryFromLatestLiveOnly ==
  \A sid \in StudentIds :
    LET mastery == get_two_category_mastery(get_db(State), sid)
    IN /\ \A a \in MostRecentLive(sid) :
            /\ EntryFor(mastery.fund, RowsOf(a.attempt_id, Fund))
            /\ EntryFor(mastery.norm, RowsOf(a.attempt_id, Norm))
       /\ MostRecentLive(sid) = {} =>
            /\ mastery.fund = [pct |-> 0, pts |-> 0, total |-> 0, correct |-> 0]
            /\ mastery.norm = [pct |-> 0, pts |-> 0, total |-> 0, correct |-> 0]
            /\ mastery.overall_points = 0

\* a student whose 'import' attempt is dated after their live attempt, both with
\* responses: the mastery shows the totals of the live one
C3_Witness ==
  \E sid \in StudentIds : \E a \in MostRecentLive(sid) : \E b \in attempt :
    /\ b.student_id = sid /\ b.source = "import" /\ b.started_at > a.started_at
    /\ RowsOf(b.attempt_id, Fund) # {}
    /\ RowsOf(a.attempt_id, Fund) # {}
    /\ Cardinality(RowsOf(a.attempt_id, Fund)) # Cardinality(RowsOf(b.attempt_id, Fund))
    /\ get_two_category_mastery(get_db(State), sid).fund.total
         = Cardinality(RowsOf(a.attempt_id, Fund))

(* ------------------------ the unlock, over time ------------------------ *)
\* what the dashboard of student sid reports once that student is logged in
UnlockedFor(s, sid) == DashboardBody(get_db(s), sid).unlocked_next

\* the outcomes of the requests that are not a submission: /quiz, /reattempt,
\* /api/quiz_progressive, /logout and a /login with the student's credentials
NonSubmitOutcomes(sid) ==
  quiz_page(State) \cup reattempt(State) \cup api_quiz_progressive(State)
  \cup logout(State)
  \cup UNION {login(State, x.email, "pw", TRUE) : x \in {y \in student : y.student_id = sid}}

\* C2: once the dashboard of the logged-in student reports the next topic
\* unlocked, it still does after any of /quiz, /reattempt,
\* /api/quiz_progressive, /login and /logout by that student.
C2_UnlockSurvivesNavigation ==
  (Allowed(session, "student") /\ UnlockedFor(State, session.student_id))
  => \A o \in NonSubmitOutcomes(session.student_id) :
       UnlockedFor(o.st, session.student_id)

(* ----------------------- /api/quiz_progressive ------------------------ *)
\* the blueprint test_api_quiz_progressive_returns_10_questions asserts
ProgressiveBlueprint == ("FD" :> 3) @@ ("1NF" :> 3) @@ ("2NF" :> 2) @@ ("3NF" :> 2)

ProgressiveSize == ProgressiveBlueprint["FD"] + ProgressiveBlueprint["1NF"]
                   + ProgressiveBlueprint["2NF"] + ProgressiveBlueprint["3NF"]

\* C9: for a logged-in student GET /api/quiz_progressive answers 200 with an
\* attempt_id and exactly 10 questions, 3 'FD', 3 '1NF', 2 '2NF' and 2 '3NF',
\* each with four options.
C9_TenQuestionsByNfLevel ==
  Allowed(session, "student") =>
    \A o \in api_quiz_progressive(State) :
      /\ o.reply.status = 200
      /\ o.reply.body.attempt_id \in {a.attempt_id : a \in o.st.attempt}
      /\ LET questions == o.reply.body.questions
         IN /\ Len(questions) = ProgressiveSize
            /\ \A level \in DOMAIN ProgressiveBlueprint :
                 Cardinality({i \in 1..Len(questions) : questions[i].nf_level = level})
                   = ProgressiveBlueprint[level]
            /\ \A i \in 1..Len(questions) : questions[i].options = OptionCount

(* ------------------------- every guarded view ------------------------- *)
\* a browser that still holds a cookie from before roles existed
InitGuard ==
  /\ student = {[student_id |-> 1, email |-> 1, password_hash |-> generate_password_hash("pw")]}
  /\ attempt = {}
  /\ response = {}
  /\ quiz = ProductionBank
  /\ feedback = {}
  /\ module_progress = {}
  /\ session \in {Anonymous, LegacySession(1)}
  /\ now = 0
  /\ requests = NoRequests
  /\ timing = NoTiming
  /\ bad_response = {}

NextGuard ==
  \/ Login
  \/ Logout
  \/ Quiz
  \/ Reattempt
  \/ ApiQuizProgressive
  \/ Submit
  \/ StudentDashboard
  \/ ReviewAttempt
  \/ Modules
  \/ StaticStudentView
  \/ ApiModuleProgress
  \/ ApiFeedback
  \/ AdminView
  \/ AdminStudentDetail

SpecGuard == InitGuard /\ [][NextGuard]_vars

\* the outcomes, in the current state, of every request to a view behind
\* student_required and behind lecturer_required
StudentViewOutcomes ==
  quiz_page(State) \cup reattempt(State) \cup api_quiz_progressive(State)
  \cup UNION {submit(State, a, answers) : a \in AttemptIdValues, answers \in AnswersValues}
  \cup UNION {student_dashboard(State, sid) : sid \in StudentIds}
  \cup UNION {review_attempt(State, a) : a \in 1..MaxAttempts}
  \cup modules(State)
  \cup UNION {static_student_view(State, route) : route \in StaticRoutes}
  \cup UNION {api_module_progress(State, k, score) : k \in ModuleKeys, score \in {0, 3, 4}}
  \cup UNION {api_feedback(State, rating) : rating \in {0, 5}}

LecturerViewOutcomes ==
  UNION {admin_view(State, route) : route \in AdminRoutes}
  \cup UNION {admin_student_detail(State, sid) : sid \in StudentIds}

\* the answer of a refused request: a redirect to /login, the view not run,
\* the four tables as they were
RefusedUntouched(o) ==
  /\ o.reply.status = 302
  /\ o.reply.location = "/login"
  /\ ~o.reply.ran
  /\ o.st.attempt = attempt
  /\ o.st.response = response
  /\ o.st.feedback = feedback
  /\ o.st.module_progress = module_progress

UrlStudentIds == 1..(MaxStudents + 1)

InvalidPayloads ==
  {p \in [attempt_id : AttemptIdValues, answers : AnswersValues] :
     \/ p.attempt_id.type # "int"
     \/ p.answers.type # "list"
     \/ DOMAIN p.answers.val = {}}

\* C12: POST /submit by a logged-in student with an invalid payload is
\* answered with 400 and leaves every table and the session as they were.
C12_InvalidPayloadIs400 ==
  Allowed(session, "student") =>
    \A p \in InvalidPayloads : \A o \in submit(State, p.attempt_id, p.answers) :
      /\ o.reply.status = 400
      /\ o.st = State

C14_ReattemptCreatesAttempt ==
  Allowed(session, "student") =>
    \A o \in reattempt(State) :
      /\ o.reply.status = 302
      /\ o.reply.location = "/quiz"
      /\ \E a \in o.st.attempt :
           /\ a.student_id = session.student_id
           /\ a.attempt_id \notin {b.attempt_id : b \in attempt}

(* --------------------------- categorize_time --------------------------- *)
\* the response times classified: every hundredth from -1 s to MaxSeconds
TimeInputs == (0 - TicksPerSecond)..(MaxSeconds * TicksPerSecond)

\* one call categorize_time(seconds)
CategorizeTime ==
  \E t \in TimeInputs :
    /\ timing' = [ticks |-> t, category |-> categorize_time(t)]
    /\ UNCHANGED <<student, attempt, response, quiz, feedback, module_progress,
                   session, now, requests, bad_response>>

SpecTime == Init /\ [][CategorizeTime]_vars

\* Fast, then Normal, then Slow
ClassRank(category) ==
  IF category = "Fast" THEN 1 ELSE IF category = "Normal" THEN 2 ELSE 3

\* C15: categorize_time gives 'Fast' below 10 s, 'Normal' from 10 s to 20 s
\* inclusive and 'Slow' above 20 s; every input gets exactly one of the three,
\* and a longer time never gets an earlier class.
C15_TimeClasses ==
  timing # NoTiming =>
    /\ timing.category \in {"Fast", "Normal", "Slow"}
    /\ timing.category = "Fast" <=> timing.ticks < 10 * TicksPerSecond
    /\ timing.category = "Normal" <=>
         (10 * TicksPerSecond <= timing.ticks /\ timing.ticks <= 20 * TicksPerSecond)
    /\ timing.category = "Slow" <=> timing.ticks > 20 * TicksPerSecond
    /\ \A t \in TimeInputs :
         t <= timing.ticks => ClassRank(categorize_time(t)) <= ClassRank(timing.category)

\* exactly 10 seconds were classified, as 'Normal'
C15_Witness ==
  /\ timing.ticks = 10 * TicksPerSecond
  /\ timing.category = "Normal"

(* ----------------------------- history.xlsx ---------------------------- *)
\* the sequences over S with at most n entries
SeqsUpTo(S, n) == UNION {[1..k -> S] : k \in 0..n}

\* the workbooks imported: up to MaxSheetRows attempts, dated before or after
\* the attempts of the web application, and up to MaxSheetRows responses to
\* the earlier date, answering the first question of the bank (the first
\* address rightly, the others wrongly) or a question the bank does not have
HistoryFiles ==
  {HistoryFile(attempts, responses, finished) :
     attempts \in SeqsUpTo({AttemptRow(e, t) : e \in 1..MaxStudents, t \in ImportTimes},
                           MaxSheetRows),
     responses \in SeqsUpTo({ResponseRow(e, 0, q, e = 1) :
                               e \in 1..MaxStudents, q \in {0, 1}}, MaxSheetRows),
     finished \in BOOLEAN}

ImportHistoryFile == \E file \in HistoryFiles : Step(import_history_file(State, file))

SpecHistory == Init /\ [][ImportHistoryFile]_vars

\* the rows an import added to a table, by primary key
NewAttempts(o) == {a \in o.st.attempt : a.attempt_id \notin {b.attempt_id : b \in attempt}}
NewResponses(o) == {r \in o.st.response : r.response_id \notin {x.response_id : x \in response}}

\* the new responses that answer question `text` in an attempt of the student
\* with address `email` started at `started_at`
ResponsesFor(o, email, started_at, text) ==
  {r \in NewResponses(o) :
     /\ r.quiz_id = QuizIdOf(quiz, text)
     /\ \E a \in o.st.attempt, x \in o.st.student :
          /\ a.attempt_id = r.attempt_id /\ a.started_at = started_at
          /\ a.student_id = x.student_id /\ x.email = email
          /\ r.student_id = x.student_id}

\* C17: import_history adds one student per distinct new email, one attempt
\* per row of the attempts sheet, and one response per row of the responses
\* sheet whose question is in the bank, attached to the attempt of the row's
\* email and started_at; rows with a question outside the bank add nothing.
C17_HistoryRowForRow ==
  \A file \in HistoryFiles : \A o \in import_history_file(State, file) :
    LET emails == {file.attempts[i].email : i \in 1..Len(file.attempts)}
        known == {i \in 1..Len(file.responses) :
                    QuizIdOf(quiz, file.responses[i].question) # 0}
    IN /\ {x.email : x \in o.st.student} = {x.email : x \in student} \cup emails
       /\ Cardinality(o.st.student) = Cardinality({x.email : x \in o.st.student})
       /\ Cardinality(NewAttempts(o)) = Len(file.attempts)
       /\ Cardinality(NewResponses(o)) = Cardinality(known)
       /\ \A i \in known :
            LET row == file.responses[i]
            IN Cardinality(ResponsesFor(o, row.email, row.started_at, row.question))
                 = Cardinality({j \in known :
                                  /\ file.responses[j].email = row.email
                                  /\ file.responses[j].started_at = row.started_at
                                  /\ file.responses[j].question = row.question})

(* ---------------------------- questions.xlsx --------------------------- *)
\* the sheets imported: with or without the required columns, up to
\* MaxSheetRows questions whose texts are the first two of the seeded bank or
\* a new one (100 + 1), a text possibly twice
QuestionsFiles ==
  {QuestionsFile(has_columns, rows) :
     has_columns \in BOOLEAN, rows \in SeqsUpTo({1, 2, 101}, MaxSheetRows)}

\* the statement that raises, 0 for none
Faults == 0..(MaxSheetRows + 2)

ImportQuestions ==
  \E file \in QuestionsFiles, fault \in Faults : Step(import_questions(State, file, fault))

NextExcel ==
  \/ ImportQuestions
  \/ ImportHistory

SpecExcel == Init /\ [][NextExcel]_vars

\* the rows of a quiz table with a question text, and the rows of a sheet with it
QuizRowsWith(qz, text) == {q \in qz : q.question = text}
SheetRowsWith(rows, text) == {i \in 1..Len(rows) : rows[i] = text}

\* C16: import_questions raises ValueError('Missing columns ...') for a sheet
\* without a required column and then, as after any failure of a statement,
\* leaves the quiz table as it was; on success the quiz table holds exactly one
\* row per row of the sheet and nothing else.
C16_QuestionsReplacedOrKept ==
  \A file \in QuestionsFiles, fault \in Faults : \A o \in import_questions(State, file, fault) :
    LET failure == "error" \in DOMAIN o.reply.body
        raises == fault \in 1..(Len(file.rows) + 2)
    IN /\ ~file.has_columns => failure /\ o.reply.body.error = "ValueError: Missing columns"
       /\ failure <=> (~file.has_columns \/ raises)
       /\ failure => o.st = State
       /\ ~failure =>
            /\ Cardinality(o.st.quiz) = Len(file.rows)
            /\ \A q \in o.st.quiz : q.question \in {file.rows[i] : i \in 1..Len(file.rows)}
            /\ \A text \in {file.rows[i] : i \in 1..Len(file.rows)} :
                 Cardinality(QuizRowsWith(o.st.quiz, text))
                   = Cardinality(SheetRowsWith(file.rows, text))

\* an import has replaced the seeded bank by a two-row sheet, and responses
\* exist; a further import that fails after its second INSERT would leave
\* these two rows in place
C16_Witness ==
  /\ Cardinality(quiz) = 2
  /\ \A q \in quiz : q.two_category = NullCategory
  /\ response # {}
  /\ \E file \in QuestionsFiles :
       /\ Len(file.rows) = 2 /\ file.has_columns
       /\ \A o \in import_questions(State, file, 3) : o.st.quiz = quiz

(* ------------------- /submit: once, and by the owner ------------------- *)
\* the well-formed payloads: an attempt id and a non-empty list of answers
ScorablePayloads ==
  {p \in (AttemptIdValues \X AnswersValues) :
     p[1].type = "int" /\ p[2].type = "list" /\ DOMAIN p[2].val # {}}

AttemptsAndResponsesKept(before, after) ==
  after.attempt = before.attempt /\ after.response = before.response

Request(route, pc, student_id, attempt_id, answers) ==
  [route |-> route, pc |-> pc, student_id |-> student_id,
   attempt_id |-> attempt_id, answers |-> answers]

RemoveAt(seq, i) == [k \in 1..(Len(seq) - 1) |-> IF k < i THEN seq[k] ELSE seq[k + 1]]

\* one of the outcomes is taken, and the requests in flight become reqs
StepWith(outs, reqs) ==
  \E o \in outs :
    /\ InBounds(o.st)
    /\ student' = o.st.student
    /\ attempt' = o.st.attempt
    /\ response' = o.st.response
    /\ quiz' = o.st.quiz
    /\ feedback' = o.st.feedback
    /\ module_progress' = o.st.module_progress
    /\ session' = o.st.session
    /\ now' = o.st.now
    /\ bad_response' = o.st.bad_response
    /\ requests' = reqs
    /\ UNCHANGED timing

\* the routes that call _get_or_create_open_attempt
OpenAttemptRoutes == {"/quiz", "/reattempt", "/api/quiz_progressive"}

HandlerOf(route, s) ==
  IF route = "/quiz" THEN quiz_page(s)
  ELSE IF route = "/reattempt" THEN reattempt(s)
  ELSE api_quiz_progressive(s)

AfterOpenAttempt(route, r) ==
  IF route = "/quiz" THEN QuizWith(r)
  ELSE IF route = "/reattempt" THEN ReattemptWith(r)
  ELSE ApiQuizProgressiveWith(r)

\* a request to one of these routes, up to the SELECT of the unfinished
\* attempt: refused, or served with the attempt found, or left about to insert
BeginOpenAttempt ==
  \E route \in OpenAttemptRoutes :
    IF ~Allowed(session, "student") THEN StepWith(HandlerOf(route, State), requests)
    ELSE LET d1 == EnsureStudentRow(get_db(State), session.student_id)
         IN IF OpenAttempt(d1, session.student_id) # 0
            THEN StepWith(HandlerOf(route, State), requests)
            ELSE /\ Len(requests) < MaxRequests
                 /\ StepWith({Out(d1, Reply(route, 0, "", TRUE, NoBody))},
                             Append(requests,
                                    Request(route, "insert", session.student_id, 0, <<>>)))

\* the rest of such a request: the INSERT, and what the route does with the
\* attempt_id
FinishOpenAttempt ==
  \E i \in 1..Len(requests) :
    /\ requests[i].pc = "insert"
    /\ StepWith(AfterOpenAttempt(requests[i].route,
                                 InsertOpenAttempt(State, requests[i].student_id)),
                RemoveAt(requests, i))

\* the payloads posted while other requests are in flight: no attempt_id or
\* one, and one answer, two answers or no list
RaceAttemptIdValues == {JMissing} \cup {JInt(n) : n \in 1..MaxAttempts}
RaceAnswersValues == {JList(AnswersOf(1, 1, 0, 0)), JList(AnswersOf(1, 0, 1, 1)), JText}

\* POST /submit up to the check of finished_at: answered at once when it is
\* refused or rejected, left about to score otherwise
BeginSubmit ==
  \E a \in RaceAttemptIdValues, answers \in RaceAnswersValues :
    LET outs == submit(State, a, answers)
    IN IF \E o \in outs : o.reply.status = 200
       THEN /\ Len(requests) < MaxRequests
            /\ StepWith({Out(get_db(State), Reply("/submit", 0, "", TRUE, NoBody))},
                        Append(requests,
                               Request("/submit", "score", session.student_id,
                                       a.val, answers.val)))
       ELSE StepWith(outs, requests)

\* the rest of an accepted submit: the responses, the attempt, the commit
FinishSubmit ==
  \E i \in 1..Len(requests) :
    /\ requests[i].pc = "score"
    /\ StepWith({Out(SubmitScored(State, requests[i].student_id,
                                  requests[i].attempt_id, requests[i].answers),
                     Reply("/submit", 200, "", TRUE, NoBody))},
                RemoveAt(requests, i))

NextRace ==
  \/ Login
  \/ Logout
  \/ BeginOpenAttempt
  \/ FinishOpenAttempt
  \/ BeginSubmit
  \/ FinishSubmit

SpecRace == Init /\ [][NextRace]_vars

ResponsesOf(resp, aid) == {r \in resp : r.attempt_id = aid}

\* C19: of two concurrent submits of one unfinished attempt at most one
\* records responses: once an attempt is finished, no step adds a response
\* to it or changes one of its responses.
C19_OneSubmitRecords ==
  [][\A a \in attempt :
       a.finished => ResponsesOf(response', a.attempt_id) = ResponsesOf(response, a.attempt_id)]_vars

\* C20: a student has at most one unfinished attempt at any time, whatever
\* the interleaving of the requests to /quiz, /reattempt and
\* /api/quiz_progressive.
C20_OneOpenAttempt ==
  \A sid \in {x.student_id : x \in student} :
    Cardinality({a \in attempt : a.student_id = sid /\ ~a.finished}) <= 1

(* --------------------------- next_step_concept ------------------------- *)
\* the attempt has a response of the category and every one is correct
PerfectIn(aid, cat) == RowsOf(aid, cat) # {} /\ CorrectOf(aid, cat) = RowsOf(aid, cat)

\* C21: next_step_concept names Fundamentals when the student's latest live
\* attempt is not perfect in Fundamentals, otherwise Normalization when it is
\* not perfect in Normalization, otherwise nothing; it names nothing exactly
\* when the dashboard of the same student reports unlocked_next.
C21_NextStepAgreesWithUnlock ==
  \A sid \in StudentIds :
    LET db == get_db(State)
        next == next_step_concept(db, sid)
        fund_done == \E a \in MostRecentLive(sid) : PerfectIn(a.attempt_id, Fund)
        norm_done == \E a \in MostRecentLive(sid) : PerfectIn(a.attempt_id, Norm)
    IN /\ next = (IF ~fund_done THEN Fund ELSE IF ~norm_done THEN Norm ELSE "None")
       /\ (next = "None") <=> DashboardBody(db, sid).unlocked_next

\* one student is sent to Normalization after a perfect Fundamentals score,
\* another has nothing left and sees the next topic unlocked
C21_Witness ==
  /\ \E sid \in StudentIds :
       /\ next_step_concept(get_db(State), sid) = Norm
       /\ \E a \in MostRecentLive(sid) : RowsOf(a.attempt_id, Norm) # {}
  /\ \E sid \in StudentIds :
       /\ next_step_concept(get_db(State), sid) = "None"
       /\ DashboardBody(get_db(State), sid).unlocked_next

(* ---------------------- the review and the dashboard ------------------- *)
NextReview ==
  \/ NextImport
  \/ ReviewAttempt

SpecReview == Init /\ [][NextReview]_vars

\* C22: for the most recent live attempt of the logged-in student, the review
\* page of that attempt and the dashboard show the same Fundamentals accuracy,
\* the same Normalization accuracy and the same unlocked_next.
C22_ReviewAgreesWithDashboard ==
  Allowed(session, "student") =>
    \A a \in MostRecentLive(session.student_id) :
      /\ ReviewBodies(a.attempt_id) # {}
      /\ DashboardBodies # {}
      /\ \A review \in ReviewBodies(a.attempt_id), dashboard \in DashboardBodies :
           /\ review.fund_pct = dashboard.two_cat.fund.pct
           /\ review.norm_pct = dashboard.two_cat.norm.pct
           /\ review.unlocked_next = dashboard.unlocked_next

\* the logged-in student's latest live attempt is perfect in one category
\* only, and the review of it shows 100.0 next to 0.0 and nothing unlocked
C22_Witness ==
  /\ Allowed(session, "student")
  /\ \E a \in MostRecentLive(session.student_id) :
       /\ PerfectIn(a.attempt_id, Fund)
       /\ RowsOf(a.attempt_id, Norm) # {}
       /\ \E review \in ReviewBodies(a.attempt_id) :
            review.fund_pct = 1000 /\ review.norm_pct = 0 /\ ~review.unlocked_next

(* ------------------------- the shape of the session -------------------- *)
\* anonymous, a student of the student table, or a lecturer of the lecturer
\* table, with no key of another identity
SessionShape(sess, students) ==
  \/ sess = Anonymous
  \/ \E x \in students : sess = StudentSession(x.student_id)
  \/ \E l \in Lecturers : sess = LecturerSession(l.lecturer_id)

\* C23: the session is anonymous, a student's or a lecturer's, and nothing in
\* between: in every state, and after every login, registration and logout
\* made in it; a logout leaves the anonymous session.
C23_SessionShapes ==
  /\ SessionShape(session, student)
  /\ \A e \in Emails, pw \in Passwords, csrf_ok \in BOOLEAN :
       \A o \in login(State, e, pw, csrf_ok) : SessionShape(o.st.session, o.st.student)
  /\ \A e \in Emails, filled \in BOOLEAN, csrf_ok \in BOOLEAN :
       \A o \in register(State, e, filled, csrf_ok) : SessionShape(o.st.session, o.st.student)
  /\ \A o \in logout(State) : o.st.session = Anonymous

\* a lecturer is logged in after a student had registered, and a student can
\* log in over the lecturer's session
C23_Witness ==
  /\ session = LecturerSession(1)
  /\ Cardinality(student) = 2
  /\ \E e \in Emails : \E o \in login(State, e, "pw", TRUE) :
       o.st.session.role = "student" /\ o.st.session.lecturer_id = 0

(* ------------------------ accounts and passwords ----------------------- *)
\* what the column password_hash of a student row holds: a werkzeug hash, the
\* literal import_history writes, or '' (the column's default)
StoredHashes == {generate_password_hash("pw"), "imported", ""}

\* two student accounts, each in one of these states
InitLogin ==
  /\ student \in {{[student_id |-> 1, email |-> 1, password_hash |-> h1],
                   [student_id |-> 2, email |-> 2, password_hash |-> h2]} :
                    h1 \in StoredHashes, h2 \in StoredHashes}
  /\ attempt = {}
  /\ response = {}
  /\ quiz = ProductionBank
  /\ feedback = {}
  /\ module_progress = {}
  /\ session = Anonymous
  /\ now = 0
  /\ requests = NoRequests
  /\ timing = NoTiming
  /\ bad_response = {}

NextLogin ==
  \/ Login
  \/ Logout
  \/ Quiz
  \/ StudentDashboard

SpecLogin == InitLogin /\ [][NextLogin]_vars

\* the password verifies against the hash stored for the account of the email
Verifies(email, password) ==
  \/ \E x \in student : x.email = email /\ check_password_hash(x.password_hash, password)
  \/ \E l \in Lecturers : l.email = email /\ check_password_hash(l.password_hash, password)

\* C24: a login is accepted only with a password that verifies against the
\* stored hash of the account; with any other password, whatever the stored
\* hash, the reply sends back to /login and the session is as before.
C24_LoginNeedsThePassword ==
  \A e \in Emails, pw \in Passwords, csrf_ok \in BOOLEAN :
    \A o \in login(State, e, pw, csrf_ok) :
      /\ o.reply.location # "/login" => Verifies(e, pw)
      /\ ~Verifies(e, pw) => o.reply.location = "/login" /\ o.st.session = session

(* ------------------------------ csrf_token ----------------------------- *)
\* the csrf_token a form posts, and the one the session cookie carries ("":
\* none)
FormTokens == {"", "new", "t1", "t2"}
SessionTokens == {"", "t1"}

\* C25: a POST to /register or /login whose csrf_token is not the session's
\* is turned away before anything else is done: the reply redirects to the
\* same form, no student row is added and the session and the tables are as
\* before.
C25_CsrfMismatchRejected ==
  \A form_token \in FormTokens, session_token \in SessionTokens :
    ~CsrfOk(form_token, session_token) =>
      /\ \A e \in Emails, filled \in BOOLEAN :
           \A o \in register(State, e, filled, CsrfOk(form_token, session_token)) :
             /\ o.reply.status = 302 /\ o.reply.location = "/register"
             /\ o.st = State
      /\ \A e \in Emails, pw \in Passwords :
           \A o \in login(State, e, pw, CsrfOk(form_token, session_token)) :
             /\ o.reply.status = 302 /\ o.reply.location = "/login"
             /\ o.st = State

\* a student is logged in, and an email is free that a registration with the
\* right token would take, and a login with the right token would change
\* the session
C25_Witness ==
  /\ session.role = "student"
  /\ \E e \in Emails :
       \E o \in register(State, e, TRUE, CsrfOk("t1", "t1")) : o.st.student # student
  /\ \E e \in Emails :
       \E o \in login(State, e, "pw", CsrfOk("new", "")) : o.st.session.role = "lecturer"

(* ----------------------- topping up the quiz bank ---------------------- *)
\* a row of a quiz CSV: the question text after strip() (0: empty), the
\* two_category after strip(), the length of the JSON list in options_text,
\* and whether correct_answer is one of the options
CsvRow(question, two_category, options, correct_in) ==
  [question |-> question, two_category |-> two_category, options |-> options,
   correct_in |-> correct_in]

\* a quiz CSV: whether the file exists, whether its header line is
\* EXPECTED_HEADERS, and its rows
CsvFile(exists, headers_ok, rows) == [exists |-> exists, headers_ok |-> headers_ok, rows |-> rows]

\* ALLOWED / ALLOWED_CATEGORIES
AllowedCategories == {Fund, Norm}

QuestionTexts(qz) == {q.question : q \in qz}

\* INSERT INTO quiz (question, options_text, ..., two_category) for CSV row i
CsvQuizRow(qz, row, i) ==
  [quiz_id |-> IF qz = {} THEN 1 ELSE MaxOf({q.quiz_id : q \in qz}) + 1,
   question |-> row.question, two_category |-> row.two_category, options |-> row.options,
   nf_level |-> NfLevels[((i - 1) % Len(NfLevels)) + 1]]

\* the loop of _seed over the rows of the file
RECURSIVE SeedRows(_, _, _, _, _)
SeedRows(qz, rows, i, existing, current) ==
  IF i > Len(rows) THEN qz
  ELSE LET row == rows[i]
       IN IF \/ row.question = 0 \/ row.question \in existing
             \/ row.two_category \notin AllowedCategories
             \/ row.options # OptionCount
             \/ ~row.correct_in
          THEN SeedRows(qz, rows, i + 1, existing, current)
          ELSE LET q2 == qz \cup {CsvQuizRow(qz, row, i)}
               IN IF current + 1 >= MaxQuestions THEN q2
                  ELSE SeedRows(q2, rows, i + 1, existing \cup {row.question}, current + 1)

\* a variant of the loop that does not stop at 30
RECURSIVE SeedRowsUncapped(_, _, _, _, _)
SeedRowsUncapped(qz, rows, i, existing, current) ==
  IF i > Len(rows) THEN qz
  ELSE LET row == rows[i]
       IN IF \/ row.question = 0 \/ row.question \in existing
             \/ row.two_category \notin AllowedCategories
             \/ row.options # OptionCount
             \/ ~row.correct_in
          THEN SeedRowsUncapped(qz, rows, i + 1, existing, current)
          ELSE SeedRowsUncapped(qz \cup {CsvQuizRow(qz, row, i)}, rows, i + 1,
                                existing \cup {row.question}, current + 1)

\* seed_import_questions with the loop that does not stop at 30
seed_import_questions_uncapped(qz, csv) ==
  IF ~csv.exists THEN qz
  ELSE IF Cardinality(qz) >= MaxQuestions THEN qz
  ELSE IF ~csv.headers_ok THEN qz
  ELSE SeedRowsUncapped(qz, csv.rows, 1, QuestionTexts(qz), Cardinality(qz))

\* seed_import_questions(csv_path, conn): the quiz table it leaves
seed_import_questions(qz, csv) ==
  IF ~csv.exists THEN qz
  ELSE IF Cardinality(qz) >= MaxQuestions THEN qz
  ELSE IF ~csv.headers_ok THEN qz
  ELSE SeedRows(qz, csv.rows, 1, QuestionTexts(qz), Cardinality(qz))

\* the loop of _top_up_questions
RECURSIVE TopUpRows(_, _, _, _, _, _)
TopUpRows(qz, rows, i, existing, inserted, slots) ==
  IF i > Len(rows) THEN qz
  ELSE LET row == rows[i]
       IN IF row.two_category \notin AllowedCategories
          THEN TopUpRows(qz, rows, i + 1, existing, inserted, slots)
          ELSE IF row.question = 0 \/ row.question \in existing
          THEN TopUpRows(qz, rows, i + 1, existing, inserted, slots)
          ELSE LET q2 == qz \cup {CsvQuizRow(qz, row, i)}
               IN IF inserted + 1 >= slots THEN q2
                  ELSE TopUpRows(q2, rows, i + 1, existing \cup {row.question},
                                 inserted + 1, slots)

\* _top_up_questions(conn, rows): the quiz table it leaves
top_up_questions(qz, rows) ==
  IF Cardinality(qz) >= MaxQuestions THEN qz
  ELSE TopUpRows(qz, rows, 1, QuestionTexts(qz), 0, MaxQuestions - Cardinality(qz))

\* the rows of data/quiz_30.csv that _reload_quiz_if_needed keeps
RECURSIVE ReloadRows(_, _, _)
ReloadRows(qz, rows, i) ==
  IF i > Len(rows) THEN qz
  ELSE LET row == rows[i]
       IN IF \/ row.question = 0
             \/ row.options # OptionCount
             \/ ~row.correct_in
             \/ row.two_category \notin AllowedCategories
          THEN ReloadRows(qz, rows, i + 1)
          ELSE ReloadRows(qz \cup {CsvQuizRow(qz, row, i)}, rows, i + 1)

\* _reload_quiz_if_needed: a table that does not hold exactly 30 rows is
\* replaced by the usable rows of data/quiz_30.csv, when there are any
reload_quiz_if_needed(qz, csv) ==
  IF Cardinality(qz) = MaxQuestions THEN qz
  ELSE IF ~csv.exists \/ ~csv.headers_ok THEN qz
  ELSE LET rows == ReloadRows({}, csv.rows, 1)
       IN IF rows = {} THEN qz ELSE rows

\* the quiz table after get_db() has opened the connection: stabilized, and
\* seeded from data/quiz_30.csv when it holds fewer than 30 rows
QuizOnConnect(qz, default_csv) ==
  LET q1 == reload_quiz_if_needed(qz, default_csv)
  IN IF Cardinality(q1) < MaxQuestions THEN seed_import_questions(q1, default_csv) ELSE q1

\* _validate_rows: no row raises CsvImportError
ValidRows(rows) ==
  \A i \in 1..Len(rows) :
    /\ rows[i].options = OptionCount
    /\ rows[i].correct_in
    /\ rows[i].two_category \in AllowedCategories

\* scripts/import_questions.py: import_questions(csv_path), with
\* data/quiz_30.csv being default_csv
import_questions_csv(qz, csv, default_csv) ==
  IF ~csv.exists \/ ~csv.headers_ok \/ ~ValidRows(csv.rows) THEN qz
  ELSE top_up_questions(QuizOnConnect(qz, default_csv), csv.rows)

\* the kinds of row a file holds: new questions of both categories, a text
\* the seeded bank has, an empty text, a category that is not allowed, three
\* options, a correct_answer that is no option
CsvRowKinds ==
  {CsvRow(101, Fund, OptionCount, TRUE), CsvRow(102, Norm, OptionCount, TRUE),
   CsvRow(103, Fund, OptionCount, TRUE), CsvRow(1, Fund, OptionCount, TRUE),
   CsvRow(0, Fund, OptionCount, TRUE), CsvRow(104, Legacy, OptionCount, TRUE),
   CsvRow(105, Norm, OptionCount - 1, TRUE), CsvRow(106, Fund, OptionCount, FALSE)}

NoCsv == CsvFile(FALSE, FALSE, <<>>)

CsvFiles ==
  {NoCsv, CsvFile(TRUE, FALSE, <<>>)}
    \cup {CsvFile(TRUE, TRUE, rows) : rows \in SeqsUpTo(CsvRowKinds, MaxCsvRows)}

\* banks of 27 to 31 questions
TopUpBanks ==
  {BankOf(HalfTotal + a, 0, HalfTotal + b, 0, 0) : a \in {-2, -1, 0, 1}, b \in {-1, 0}}

InitTopUp ==
  /\ student = {}
  /\ attempt = {}
  /\ response = {}
  /\ quiz \in TopUpBanks
  /\ feedback = {}
  /\ module_progress = {}
  /\ session = Anonymous
  /\ now = 0
  /\ requests = NoRequests
  /\ timing = NoTiming
  /\ bad_response = {}

\* get_db() finds fewer than 30 questions and calls seed_import_questions
SeedImportQuestions ==
  \E csv \in CsvFiles :
    /\ Cardinality(quiz) < MaxQuestions
    /\ quiz' = seed_import_questions(quiz, csv)
    /\ UNCHANGED <<student, attempt, response, feedback, module_progress, session, now,
                   requests, timing, bad_response>>

\* python scripts/import_questions.py quiz.csv, without a data/quiz_30.csv
ImportQuestionsCsv ==
  \E csv \in CsvFiles :
    /\ quiz' = import_questions_csv(quiz, csv, NoCsv)
    /\ UNCHANGED <<student, attempt, response, feedback, module_progress, session, now,
                   requests, timing, bad_response>>

NextTopUp ==
  \/ SeedImportQuestions
  \/ ImportQuestionsCsv

SpecTopUp == InitTopUp /\ [][NextTopUp]_vars

\* what a top-up may do to a quiz table: keep every row, add nothing to 30
\* rows or more, add only rows of an allowed category whose text is new and
\* differs from the other added texts, and stay within 30 rows
ToppedUp(before, after) ==
  LET added == after \ before
  IN /\ before \subseteq after
     /\ Cardinality(before) >= MaxQuestions => added = {}
     /\ \A q \in added :
          /\ q.question \notin QuestionTexts(before)
          /\ q.two_category \in AllowedCategories
          /\ \A p \in added : p.question = q.question => p = q
     /\ Cardinality(before) <= MaxQuestions => Cardinality(after) <= MaxQuestions

\* the texts of a file that a top-up can take: non-empty, new, of an allowed
\* category and, for the seed, with four options that hold the correct answer
Usable(before, rows, checked) ==
  {rows[i].question : i \in {k \in 1..Len(rows) :
      /\ rows[k].question # 0
      /\ rows[k].question \notin QuestionTexts(before)
      /\ rows[k].two_category \in AllowedCategories
      /\ checked => (rows[k].options = OptionCount /\ rows[k].correct_in)}}

\* C26: seed_import_questions and _top_up_questions top the bank up to 30
\* questions and never beyond: nothing is added to 30 rows or more, no text is
\* added that the table has or that the run has added, only rows of the two
\* allowed categories are added, at most 30 rows are left of at most 30, and
\* the bank is filled as far as the usable rows of the file reach.
C26_TopUpToThirty ==
  \A csv \in CsvFiles :
    /\ ToppedUp(quiz, seed_import_questions(quiz, csv))
    /\ ToppedUp(quiz, top_up_questions(quiz, csv.rows))
    /\ (csv.headers_ok /\ Cardinality(quiz) < MaxQuestions) =>
         /\ Cardinality(seed_import_questions(quiz, csv))
              = Min2(MaxQuestions, Cardinality(quiz) + Cardinality(Usable(quiz, csv.rows, TRUE)))
         /\ Cardinality(top_up_questions(quiz, csv.rows))
              = Min2(MaxQuestions, Cardinality(quiz) + Cardinality(Usable(quiz, csv.rows, FALSE)))

\* a bank one short of 30, and a file with two usable questions: one is taken
C26_Witness ==
  /\ Cardinality(quiz) = MaxQuestions - 1
  /\ \E q \in quiz : q.question = 101
  /\ \E csv \in CsvFiles :
       /\ Cardinality(Usable(quiz, csv.rows, TRUE)) = 2
       /\ Cardinality(seed_import_questions(quiz, csv)) = MaxQuestions
       /\ Cardinality(top_up_questions(quiz, csv.rows)) = MaxQuestions

(* ------------------------- stabilize_connection ------------------------ *)
\* _default_category: Normalization when the question or its concept_tag
\* holds one of the keywords; `keyworded` are the question texts that do
default_category(question, keyworded) == IF question \in keyworded THEN Norm ELSE Fund

\* _backfill_quiz_category
BackfillQuizCategory(qz, keyworded) ==
  {IF q.two_category = NullCategory \/ Trim(q.two_category) = ""
   THEN [q EXCEPT !.two_category = default_category(q.question, keyworded)]
   ELSE q : q \in qz}

\* stabilize_connection(conn), with data/quiz_30.csv being csv: the quiz
\* reloaded, the sources and categories backfilled, the orphans moved.  The
\* options_text and the module table are not part of the modelled state.
stabilize_connection(db, csv, keyworded) ==
  LET d1 == [db EXCEPT !.quiz = reload_quiz_if_needed(@, csv)]
      d2 == [d1 EXCEPT !.attempt = BackfillAttemptSource(@)]
      d3 == [d2 EXCEPT !.quiz = BackfillQuizCategory(@, keyworded)]
  IN [d3 EXCEPT !.response = KeptResponses(d3), !.bad_response = MovedResponses(d3)]

\* the rows of a data/quiz_30.csv: a usable one and one of another category
ReloadRowKinds == {CsvRow(101, Fund, OptionCount, TRUE), CsvRow(104, Legacy, OptionCount, TRUE)}

ReloadFiles ==
  {NoCsv, CsvFile(TRUE, FALSE, <<>>)}
    \cup {CsvFile(TRUE, TRUE, rows) : rows \in SeqsUpTo(ReloadRowKinds, MaxCsvRows)}

\* the question texts that hold a keyword
KeywordSets == SUBSET {1, 2}

\* the values a source or a two_category column holds without a value
Blanks == {"", " "}

\* the bank of 30 with the category of its first question replaced, and the
\* same bank after its last question was deleted
StabilizeBanks ==
  LET blanked(cat) == {IF q.quiz_id = 1 THEN [q EXCEPT !.two_category = cat] ELSE q :
                         q \in ProductionBank}
      full == {blanked(cat) : cat \in {Fund, NullCategory} \cup Blanks}
  IN full \cup {{q \in b : q.quiz_id # DefaultTotal} : b \in full}

\* responses of attempt 1 of student 1 and of deleted attempts, students and
\* questions: the connection of the application does not enforce foreign keys
StabilizeResponses ==
  LET row(id, aid, sid, qid) == [response_id |-> id, attempt_id |-> aid, student_id |-> sid,
                                 quiz_id |-> qid, score |-> 1]
  IN {row(1, 1, 1, 1), row(2, 2, 1, 1), row(3, 1, 2, 1),
      row(4, 2, 2, DefaultTotal + 1), row(5, 1, 1, DefaultTotal)}

InitStabilize ==
  /\ student = {[student_id |-> 1, email |-> 1, password_hash |-> generate_password_hash("pw")]}
  /\ attempt \in {{[attempt_id |-> 1, student_id |-> 1, started_at |-> 0, finished |-> TRUE,
                    source |-> src, items_total |-> 0, items_correct |-> 0]} :
                   src \in {NullSource, "live"} \cup Blanks}
  /\ response \in SUBSET StabilizeResponses
  /\ quiz \in StabilizeBanks
  /\ feedback = {}
  /\ module_progress = {}
  /\ session = Anonymous
  /\ now = 0
  /\ requests = NoRequests
  /\ timing = NoTiming
  /\ bad_response \in {{}, {[response_id |-> 2, attempt_id |-> 2, student_id |-> 1,
                             quiz_id |-> 1, score |-> 0, noted_reason |-> <<"unknown">>]}}

\* one call of stabilize_connection
Stabilize ==
  \E csv \in ReloadFiles, keyworded \in KeywordSets :
    LET after == stabilize_connection(State, csv, keyworded)
    IN /\ student' = after.student
       /\ attempt' = after.attempt
       /\ response' = after.response
       /\ quiz' = after.quiz
       /\ bad_response' = after.bad_response
       /\ UNCHANGED <<feedback, module_progress, session, now, requests, timing>>

\* the tables change through stabilize_connection alone
NextStabilize == Stabilize

SpecStabilize == InitStabilize /\ [][NextStabilize]_vars

NoValue(text) == text \in {NullSource, NullCategory} \cup Blanks

Names(reasons, reason) == \E i \in 1..Len(reasons) : reasons[i] = reason

\* C27: after stabilize_connection returns, every response has its attempt,
\* its quiz row and its student; every response that lacked one (the quiz
\* table being the one the orphan check sees, after the reload) is gone from
\* response and stands in bad_response under its response_id with a
\* noted_reason that names exactly the missing parents; no attempt is without
\* a source and no quiz row without a two_category; and the responses that
\* had all three parents are still there.
C27_StabilizedConnection ==
  \A csv \in ReloadFiles, keyworded \in KeywordSets :
    LET after == stabilize_connection(State, csv, keyworded)
        HasAttempt(r) == \E a \in after.attempt : a.attempt_id = r.attempt_id
        HasQuiz(r) == \E q \in after.quiz : q.quiz_id = r.quiz_id
        HasStudent(r) == \E s \in after.student : s.student_id = r.student_id
    IN /\ {a.attempt_id : a \in after.attempt} = {a.attempt_id : a \in attempt}
       /\ after.student = student
       /\ {q.quiz_id : q \in after.quiz} = {q.quiz_id : q \in reload_quiz_if_needed(quiz, csv)}
       /\ after.response \subseteq response
       /\ \A r \in after.response : HasAttempt(r) /\ HasQuiz(r) /\ HasStudent(r)
       /\ \A r \in response :
            IF HasAttempt(r) /\ HasQuiz(r) /\ HasStudent(r)
            THEN r \in after.response
            ELSE /\ r \notin after.response
                 /\ \E b \in after.bad_response :
                      /\ b.response_id = r.response_id
                      /\ b.attempt_id = r.attempt_id
                      /\ b.student_id = r.student_id
                      /\ b.quiz_id = r.quiz_id
                      /\ Names(b.noted_reason, "missing attempt") <=> ~HasAttempt(r)
                      /\ Names(b.noted_reason, "missing quiz") <=> ~HasQuiz(r)
                      /\ Names(b.noted_reason, "missing student") <=> ~HasStudent(r)
                      /\ \A c \in after.bad_response : c.response_id = b.response_id => c = b
       /\ \A a \in after.attempt : ~NoValue(a.source)
       /\ \A q \in after.quiz : ~NoValue(q.two_category)

\* a connection stabilized: one response is kept, one was moved for its three
\* missing parents and one for the quiz row the reload took away
C27_Witness ==
  /\ \E r \in response : r.response_id = 1
  /\ \E b \in bad_response :
       b.noted_reason = <<"missing attempt", "missing quiz", "missing student">>
  /\ \E b \in bad_response : b.response_id = 5 /\ b.noted_reason = <<"missing quiz">>
  /\ \E b \in bad_response : b.response_id = 2 /\ b.noted_reason = <<"missing attempt">>
  /\ Cardinality(quiz) < MaxCsvRows + 1
====
